---- MODULE Spec2Model ----
(***************************************************************************)
(* Period & Metrics Engine of src/calcule.py: the Jalali/Gregorian         *)
(* calendar converter, the SQLite-backed period store (pharmacies,         *)
(* periods, period_metrics) and the cash-basis KPI computation.            *)
(*                                                                         *)
(* Conventions                                                             *)
(*  - a Gregorian date (datetime.date) is a triple <<year, month, day>>;   *)
(*  - an ISO string 'YYYY-MM-DD' is the integer YYYYMMDD, which orders     *)
(*    exactly like the string for four-digit years (SQLite compares the    *)
(*    TEXT columns start_date / end_date as strings);                      *)
(*  - an SQL NULL timestamp is <<>>, a set timestamp is <<t>>;             *)
(*  - a REAL produced by a division is the reduced fraction <<n, d>>,      *)
(*    d > 0; sums and differences of integer-valued inputs are integers.   *)
(*  The optional jdatetime library is absent (the built-in algorithm of    *)
(*  gregorian_to_jalali / jalali_to_gregorian is what runs).               *)
(***************************************************************************)
EXTENDS Integers, Sequences, FiniteSets, TLC

(***************************************************************************)
(* Bounds of the model (not program constants).                            *)
(***************************************************************************)
MaxPharmacies == 2

MaxPeriods == 2

MaxClock == 2

MaxLogs == 2

(***************************************************************************)
(* Calendar converter                                                      *)
(***************************************************************************)
_GREGORIAN_MONTH_DAYS == <<31, 28, 31, 30, 31, 30, 31, 31, 30, 31, 30, 31>>

_JALALI_MONTH_DAYS == <<31, 31, 31, 31, 31, 31, 30, 30, 30, 30, 30, 29>>

\* (y % 4 == 0 and y % 100 != 0) or (y % 400 == 0)
IsGregorianLeap(y) ==
    (y % 4 = 0 /\ y % 100 # 0) \/ (y % 400 = 0)

\* for i in range(n): acc += table[i]
RECURSIVE SumFirst(_, _)
SumFirst(table, n) ==
    IF n = 0 THEN 0 ELSE table[n] + SumFirst(table, n - 1)

\* days of Gregorian month index i (1-based) of year gy, as in the final
\* loop of jalali_to_gregorian: md + 1 for February of a leap year
GregorianDim(gy, i) ==
    _GREGORIAN_MONTH_DAYS[i] + (IF i = 2 /\ IsGregorianLeap(gy) THEN 1 ELSE 0)

\* The conversions below are written as chains of functions, one per block
\* of the Python code, so that every intermediate value of the code
\* (g_day_no, gy, ...) is computed once and handed on, as an assignment does.

\* for i, md in enumerate(_GREGORIAN_MONTH_DAYS): dim = ...
\*     if g_day_no < dim: gm = i + 1; gd = g_day_no + 1; break
\*     g_day_no -= dim
\* else: gm = 12; gd = g_day_no + 1
\* return date(gy, gm, gd)
GregorianMonthLoop[gy \in Int, i \in Int, n \in Int] ==
    IF i > 12 THEN <<gy, 12, n + 1>>
    ELSE IF n < GregorianDim(gy, i) THEN <<gy, i, n + 1>>
    ELSE GregorianMonthLoop[gy, i + 1, n - GregorianDim(gy, i)]

\* if g_day_no >= 366: leap = False; g_day_no -= 1; gy += g_day_no // 365;
\*                     g_day_no %= 365
GregorianYearStep[gy \in Int, n \in Int] ==
    IF n >= 366
    THEN GregorianMonthLoop[gy + (n - 1) \div 365, 1, (n - 1) % 365]
    ELSE GregorianMonthLoop[gy, 1, n]

\* gy += 4 * (g_day_no // 1461); g_day_no %= 1461
GregorianFourYearStep[gy \in Int, n \in Int] ==
    GregorianYearStep[gy + 4 * (n \div 1461), n % 1461]

\* inside "if g_day_no >= 36525", after "g_day_no -= 1":
\*     gy += 100 * (g_day_no // 36524); g_day_no %= 36524
\*     if g_day_no >= 365: g_day_no += 1  else: leap = False
GregorianCenturyStep[gy \in Int, n \in Int] ==
    IF n % 36524 >= 365
    THEN GregorianFourYearStep[gy + 100 * (n \div 36524), (n % 36524) + 1]
    ELSE GregorianFourYearStep[gy + 100 * (n \div 36524), n % 36524]

\* gy = 1600 + 400 * (g_day_no // 146097); g_day_no %= 146097
\* if g_day_no >= 36525: g_day_no -= 1; ...
GregorianFromDayNo[g_day_no \in Int] ==
    IF g_day_no % 146097 >= 36525
    THEN GregorianCenturyStep[1600 + 400 * (g_day_no \div 146097),
                              (g_day_no % 146097) - 1]
    ELSE GregorianFourYearStep[1600 + 400 * (g_day_no \div 146097),
                               g_day_no % 146097]

\* the day number without the leap days of the 33-year cycle
jalali_to_gregorian_no_leap(jy, jm, jd) ==
    GregorianFromDayNo[
        365 * (jy - 979)
        + SumFirst(_JALALI_MONTH_DAYS, jm - 1) + (jd - 1) + 79 ]

\* jalali_to_gregorian(jy, jm, jd) -> date(gy, gm, gd)
\*   jy -= 979; jm -= 1; jd -= 1
\*   j_day_no = 365*jy + (jy//33)*8 + ((jy % 33) + 3)//4 + sum(days[:jm]) + jd
\*   g_day_no = j_day_no + 79
jalali_to_gregorian(jy, jm, jd) ==
    GregorianFromDayNo[
        365 * (jy - 979) + ((jy - 979) \div 33) * 8
        + (((jy - 979) % 33) + 3) \div 4
        + SumFirst(_JALALI_MONTH_DAYS, jm - 1) + (jd - 1) + 79 ]

\* for i, md in enumerate(_JALALI_MONTH_DAYS):
\*     if j_day_no < md: jm = i + 1; jd = j_day_no + 1; break
\*     j_day_no -= md
\* else: jm = 12; jd = j_day_no + 1
JalaliMonthLoop[jy \in Int, i \in Int, n \in Int] ==
    IF i > 12 THEN <<jy, 12, n + 1>>
    ELSE IF n < _JALALI_MONTH_DAYS[i] THEN <<jy, i, n + 1>>
    ELSE JalaliMonthLoop[jy, i + 1, n - _JALALI_MONTH_DAYS[i]]

\* if j_day_no >= 366: jy += (j_day_no - 1) // 365; j_day_no = (j_day_no - 1) % 365
JalaliYearStep[jy \in Int, n \in Int] ==
    IF n >= 366
    THEN JalaliMonthLoop[jy + (n - 1) \div 365, 1, (n - 1) % 365]
    ELSE JalaliMonthLoop[jy, 1, n]

\* j_day_no = g_day_no - 79; j_np = j_day_no // 12053; j_day_no %= 12053
\* jy = 979 + 33 * j_np + 4 * (j_day_no // 1461); j_day_no %= 1461
JalaliFromDayNo[j_day_no \in Int] ==
    JalaliYearStep[979 + 33 * (j_day_no \div 12053)
                       + 4 * ((j_day_no % 12053) \div 1461),
                   (j_day_no % 12053) % 1461]

\* gregorian_to_jalali(d) -> (jy, jm, jd), d = <<year, month, day>>
gregorian_to_jalali(d) ==
    JalaliFromDayNo[
        365 * (d[1] - 1600) + ((d[1] - 1600) + 3) \div 4
        - ((d[1] - 1600) + 99) \div 100 + ((d[1] - 1600) + 399) \div 400
        + SumFirst(_GREGORIAN_MONTH_DAYS, d[2] - 1)
        + (IF (d[2] - 1) > 1 /\ IsGregorianLeap(d[1]) THEN 1 ELSE 0)
        + (d[3] - 1) - 79 ]

\* datetime.date.toordinal(): days since 0001-01-01 (day 1)
toordinal(d) ==
    (d[1] - 1) * 365 + (d[1] - 1) \div 4 - (d[1] - 1) \div 100
    + (d[1] - 1) \div 400
    + SumFirst(_GREGORIAN_MONTH_DAYS, d[2] - 1)
    + (IF d[2] > 2 /\ IsGregorianLeap(d[1]) THEN 1 ELSE 0)
    + d[3]

\* date - timedelta(days=1)
MinusOneDay(d) ==
    IF d[3] > 1 THEN <<d[1], d[2], d[3] - 1>>
    ELSE IF d[2] > 1 THEN <<d[1], d[2] - 1, GregorianDim(d[1], d[2] - 1)>>
    ELSE <<d[1] - 1, 12, 31>>

\* date.isoformat(), as the integer YYYYMMDD
isoformat(d) == d[1] * 10000 + d[2] * 100 + d[3]

\* end = next_start - timedelta(days=1); days = (end - start).days + 1
\* return start, end, days
MonthBoundsFrom[start \in Seq(Int), end \in Seq(Int)] ==
    <<start, end, (toordinal(end) - toordinal(start)) + 1>>

MonthEndFrom[start \in Seq(Int), next_start \in Seq(Int)] ==
    MonthBoundsFrom[start, MinusOneDay(next_start)]

\* month bounds whose next_start of month 12 stays in the same year
jalali_month_bounds_no_wrap(jy, jm) ==
    MonthEndFrom[ jalali_to_gregorian(jy, jm, 1),
                  IF jm = 12 THEN jalali_to_gregorian(jy, 1, 1)
                  ELSE jalali_to_gregorian(jy, jm + 1, 1) ]

\* jalali_month_bounds(jy, jm) -> (start, end, days)
jalali_month_bounds(jy, jm) ==
    MonthEndFrom[ jalali_to_gregorian(jy, jm, 1),
                  IF jm = 12 THEN jalali_to_gregorian(jy + 1, 1, 1)
                  ELSE jalali_to_gregorian(jy, jm + 1, 1) ]

(***************************************************************************)
(* REAL arithmetic: quotients as reduced fractions <<n, d>> with d > 0     *)
(***************************************************************************)
Abs(n) == IF n < 0 THEN -n ELSE n

RECURSIVE Gcd(_, _)
Gcd(a, b) == IF b = 0 THEN a ELSE Gcd(b, a % b)

\* n / d as a REAL, d # 0
Frac(n, d) ==
    LET g == Gcd(Abs(n), Abs(d))
        sgn == IF d < 0 THEN -1 ELSE 1
    IN  <<sgn * (n \div g), Abs(d) \div g>>

\* the REAL 0 (also the result of the integer literal 0 stored in a REAL column)
RealZero == <<0, 1>>

\* a / b for two REALs, b # 0
FracDiv(a, b) == Frac(a[1] * b[2], a[2] * b[1])

FracPositive(a) == a[1] > 0

\* the integer nearest to the REAL x, a tie going to the even one (the
\* rounding of the format specifications ".0f" and ".1f")
RoundHalfEven(x) ==
    LET q == x[1] \div x[2]
        r == x[1] % x[2]
    IN  IF 2 * r < x[2] THEN q
        ELSE IF 2 * r > x[2] THEN q + 1
        ELSE IF q % 2 = 0 THEN q ELSE q + 1

(***************************************************************************)
(* Metrics engine: upsert_metrics_cash                                     *)
(***************************************************************************)
\* sales_total = (sales_cash or 0.0) + (sales_ins or 0.0)
SalesTotal(sales_cash, sales_ins) == sales_cash + sales_ins

\* fixed_total = (fixed_rent or 0.0) + (fixed_staff or 0.0)
FixedTotal(fixed_rent, fixed_staff) == fixed_rent + fixed_staff

\* gross_profit = sales_total - var_total  (contrib_margin: same expression)
GrossProfit(sales_total, var_total) == sales_total - var_total

\* net profit with opex_other_total left out
NetProfitWithoutOpex(sales_total, var_total, fixed_total, opex_other_total) ==
    (sales_total - var_total) - fixed_total

\* net_profit_operational = (sales_total - var_total) - fixed_total - opex_other_total
NetProfitOperational(sales_total, var_total, fixed_total, opex_other_total) ==
    (sales_total - var_total) - fixed_total - opex_other_total

\* cm_ratio = CASE WHEN sales_total > 0 THEN (sales_total - var_total)/sales_total ELSE 0 END
CmRatio(sales_total, var_total) ==
    IF sales_total > 0 THEN Frac(sales_total - var_total, sales_total)
    ELSE RealZero

\* np_ratio = CASE WHEN sales_total > 0 THEN (... ) * 1.0 / sales_total ELSE 0 END
NpRatio(sales_total, var_total, fixed_total, opex_other_total) ==
    IF sales_total > 0
    THEN Frac((sales_total - var_total) - fixed_total - opex_other_total, sales_total)
    ELSE RealZero

\* the breakeven CASE with the margin test written as "not zero"
BreakevenSalesNonZeroMargin(sales_total, var_total, fixed_total) ==
    IF sales_total > 0 /\ Frac(sales_total - var_total, sales_total) # RealZero
    THEN FracDiv(Frac(fixed_total, 1), Frac(sales_total - var_total, sales_total))
    ELSE RealZero

\* breakeven_sales = CASE WHEN sales_total > 0 AND (sales_total - var_total)/sales_total > 0
\*                        THEN fixed_total / ((sales_total - var_total)/sales_total) ELSE 0 END
BreakevenSales(sales_total, var_total, fixed_total) ==
    IF sales_total > 0 /\ FracPositive(Frac(sales_total - var_total, sales_total))
    THEN FracDiv(Frac(fixed_total, 1), Frac(sales_total - var_total, sales_total))
    ELSE RealZero

\* sales_total*1.0/days_count without the CASE: SQLite evaluates a division
\* by zero to NULL
AvgDailySalesUnguarded(sales_total, days_count) ==
    IF days_count # 0 THEN Frac(sales_total, days_count) ELSE <<>>

\* avg_daily_sales = CASE WHEN days_count > 0 THEN sales_total*1.0/days_count ELSE 0 END
AvgDailySales(sales_total, days_count) ==
    IF days_count > 0 THEN Frac(sales_total, days_count) ELSE RealZero

\* avg_sale_per_visit = CASE WHEN visits_total > 0 THEN sales_total*1.0/visits_total ELSE 0 END
AvgSalePerVisit(sales_total, visits_total) ==
    IF visits_total > 0 THEN Frac(sales_total, visits_total) ELSE RealZero

\* column defaults of a freshly INSERTed period_metrics row (CREATE TABLE
\* defaults) for the columns the INSERT does not list
InsertedRow(raw, t) ==
    [ sales_cash |-> raw.sales_cash, sales_ins |-> raw.sales_ins,
      sales_total |-> SalesTotal(raw.sales_cash, raw.sales_ins),
      var_total |-> raw.var_total,
      fixed_rent |-> raw.fixed_rent, fixed_staff |-> raw.fixed_staff,
      fixed_total |-> FixedTotal(raw.fixed_rent, raw.fixed_staff),
      opex_other_total |-> raw.opex_other_total,
      visits_total |-> raw.visits_total, days_count |-> raw.days_count,
      gross_profit |-> 0, net_profit_operational |-> 0, contrib_margin |-> 0,
      cm_ratio |-> RealZero, np_ratio |-> RealZero, breakeven_sales |-> RealZero,
      avg_daily_sales |-> RealZero, avg_sale_per_visit |-> RealZero,
      computed_at |-> <<t>>, locked_at |-> <<>> ]

\* the conflict branch written as a replacement of the row (INSERT OR
\* REPLACE), which resets the columns the INSERT does not list
ConflictReplacedRow(old, raw, t) == InsertedRow(raw, t)

\* the conflict branch written as an accumulation: the money columns add
\* excluded.* to the old row's values
ConflictAccumulatedRow(old, raw, t) ==
    [ old EXCEPT
      !.sales_cash = old.sales_cash + raw.sales_cash,
      !.sales_ins = old.sales_ins + raw.sales_ins,
      !.sales_total = old.sales_total + SalesTotal(raw.sales_cash, raw.sales_ins),
      !.var_total = old.var_total + raw.var_total,
      !.fixed_rent = raw.fixed_rent, !.fixed_staff = raw.fixed_staff,
      !.fixed_total = FixedTotal(raw.fixed_rent, raw.fixed_staff),
      !.opex_other_total = raw.opex_other_total,
      !.visits_total = raw.visits_total, !.days_count = raw.days_count,
      !.computed_at = <<t>> ]

\* ON CONFLICT (pharmacy_id, period_id, basis) DO UPDATE SET <raw columns,
\* sales_total, fixed_total, computed_at> = excluded.*; every other column
\* (the derived ones, locked_at) keeps the old row's value
ConflictUpdatedRow(old, raw, t) ==
    [ old EXCEPT
      !.sales_cash = raw.sales_cash, !.sales_ins = raw.sales_ins,
      !.sales_total = SalesTotal(raw.sales_cash, raw.sales_ins),
      !.var_total = raw.var_total,
      !.fixed_rent = raw.fixed_rent, !.fixed_staff = raw.fixed_staff,
      !.fixed_total = FixedTotal(raw.fixed_rent, raw.fixed_staff),
      !.opex_other_total = raw.opex_other_total,
      !.visits_total = raw.visits_total, !.days_count = raw.days_count,
      !.computed_at = <<t>> ]

\* the second statement: UPDATE period_metrics SET <derived columns> from
\* the row's own stored columns
DerivedUpdatedRow(row) ==
    [ row EXCEPT
      !.gross_profit = GrossProfit(row.sales_total, row.var_total),
      !.net_profit_operational =
          NetProfitOperational(row.sales_total, row.var_total,
                               row.fixed_total, row.opex_other_total),
      !.contrib_margin = GrossProfit(row.sales_total, row.var_total),
      !.cm_ratio = CmRatio(row.sales_total, row.var_total),
      !.np_ratio = NpRatio(row.sales_total, row.var_total,
                           row.fixed_total, row.opex_other_total),
      !.breakeven_sales =
          BreakevenSales(row.sales_total, row.var_total, row.fixed_total),
      !.avg_daily_sales = AvgDailySales(row.sales_total, row.days_count),
      !.avg_sale_per_visit = AvgSalePerVisit(row.sales_total, row.visits_total) ]

\* the eight raw-input columns of a period_metrics row, as the argument
\* list of upsert_metrics_cash
RawInputsOf(row) ==
    [ sales_cash |-> row.sales_cash, sales_ins |-> row.sales_ins,
      var_total |-> row.var_total,
      fixed_rent |-> row.fixed_rent, fixed_staff |-> row.fixed_staff,
      opex_other_total |-> row.opex_other_total,
      visits_total |-> row.visits_total, days_count |-> row.days_count ]

\* the period_metrics table after upsert_metrics_cash(pharmacy_id, period_id, raw)
\* committed at time t
UpsertedMetrics(m, pharmacy_id, period_id, raw, t) ==
    LET key == <<pharmacy_id, period_id>>
        row == IF key \in DOMAIN m
               THEN ConflictUpdatedRow(m[key], raw, t)
               ELSE InsertedRow(raw, t)
    IN  [k \in DOMAIN m \cup {key} |->
            IF k = key THEN DerivedUpdatedRow(row) ELSE m[k]]

(***************************************************************************)
(* Inputs the operations are exercised with                                *)
(***************************************************************************)
\* (jy, jm) arguments of get_or_create_month_period: the last month of the
\* leap year 1403 (2025-02-19 .. 2025-03-20) and the first month of 1404
Months == {<<1403, 12>>, <<1404, 1>>}

\* ISO dates handed to new_period directly: the first and the last day of
\* 1403-12 (so that new_period can hit, cut or miss a calendar month)
TestDates == {20250219, 20250320}

Statuses == {"open", "pending_approval", "closed"}

RawOf(sc, si, vt, fr, fs, ox, vis, days) ==
    [ sales_cash |-> sc, sales_ins |-> si, var_total |-> vt,
      fixed_rent |-> fr, fixed_staff |-> fs, opex_other_total |-> ox,
      visits_total |-> vis, days_count |-> days ]

\* raw inputs in units of 500 000: the scenario 6M/4M/3M/2M/1M/0.5M/500/30
StoreRaws == { RawOf(12, 8, 6, 4, 2, 1, 500, 30) }

\* the full grid used to exercise the KPI arithmetic
AllRaws ==
    { RawOf(sc, si, vt, fr, fs, ox, vis, days) :
        sc \in {-4, 0, 12}, si \in {0, 8}, vt \in {0, 6, 30},
        fr \in {0, 4}, fs \in {0, 2}, ox \in {0, 1},
        vis \in {0, 500}, days \in {0, 30} }

(***************************************************************************)
(* State                                                                   *)
(***************************************************************************)
VARIABLES
    pharmacies,     \* table pharmacies: the set of ids
    periods,        \* table periods: row id -> row (ids are 1..Len)
    period_metrics, \* table period_metrics (basis 'cash'):
                    \*   <<pharmacy_id, period_id>> -> row
    now,            \* the clock read by datetime('now')
    lastCall,       \* the last call made to the store and its outcome
    monthResult,    \* history: <<pharmacy_id, <<jy, jm>>>> -> period id returned
                    \*   by the last successful get_or_create_month_period
    conn,           \* per concurrent caller: its call in progress on its own
                    \*   sqlite3 connection (db_conn opens one per call)
    writer,         \* the caller whose connection holds SQLite's write
                    \*   (RESERVED) lock, 0 when the database is unlocked
    daily_logs,     \* table daily_logs: row id -> row (ids are 1..Len)
    daily,          \* context.user_data["daily"] of the owner's chat
    cal,            \* the last call made to the calendar converter and
                    \*   what it returned
    weekly,         \* the last report cb_weekly_report rendered
    compare,        \* the last table render_compare_table rendered
    sim,            \* context.user_data["sim"] of the owner's chat:
                    \*   <<>> (no such key) or <<session>>
    sim_view,       \* the last message a simulator handler rendered, or
                    \*   the last result of compute_simulated
    check,          \* context.user_data["check"] of the owner's chat
    peer_sim,       \* context.user_data["sim"] of a second owner:
                    \*   <<>> (no such key) or <<session>>
    handled         \* history: the handler the application ran for the
                    \*   last text reply and the user who sent it

storeVars == <<pharmacies, periods, period_metrics, now, lastCall, monthResult>>

connVars == <<conn, writer>>

appVars == <<check, peer_sim, handled>>

viewVars == <<weekly, compare, sim, sim_view, check, peer_sim, handled>>

\* viewVars without handled
quietVars == <<weekly, compare, sim, sim_view, check, peer_sim>>

flowVars == <<daily_logs, daily, cal, weekly, compare, sim, sim_view, check,
              peer_sim, handled>>

vars == <<pharmacies, periods, period_metrics, now, lastCall, monthResult,
          conn, writer, daily_logs, daily, cal, weekly, compare, sim,
          sim_view, check, peer_sim, handled>>

\* context.user_data without the key "daily"
NoDaily == [step |-> -1]

\* no calendar call made yet
NoCal == [op |-> "none"]

\* no weekly report rendered yet
NoWeekly == [op |-> "none"]

\* no comparison table rendered yet
NoCompare == [op |-> "none"]

\* context.user_data without the key "sim"
NoSim == <<>>

\* no simulation rendered yet
NoSimView == [op |-> "none"]

\* context.user_data without the key "check"
NoCheck == [step |-> -1]

\* no text reply handled yet
NoHandled == [handler |-> "none", user |-> 0, answer |-> ""]

\* handler ran for a text reply of user and answered with the message that
\* the code logs as log_context ("" when it sent none)
Handled(handler, user, log_context) ==
    [handler |-> handler, user |-> user, answer |-> log_context]

\* the daily_logs table is empty after migrate; no conversation is open
InitFlow ==
    /\ daily_logs = <<>>
    /\ daily = NoDaily
    /\ cal = NoCal
    /\ weekly = NoWeekly
    /\ compare = NoCompare
    /\ sim = NoSim
    /\ sim_view = NoSimView
    /\ check = NoCheck
    /\ peer_sim = NoSim
    /\ handled = NoHandled

\* the callers that may run new_period at the same time
Workers == {1, 2}

IdleConn ==
    [ pc |-> "idle", pharmacy_id |-> 0, start_date |-> 0, end_date |-> 0,
      result |-> 0, err |-> "" ]

\* again (history): the call was an upsert_metrics_cash whose raw inputs are
\* the ones the latest upsert_metrics_cash for the same key had stored
\* replaced (history): <<row>> for the daily_logs row the call's ON CONFLICT
\* branch overwrote, <<>> if it overwrote none
Call(op, result, err) ==
    [op |-> op, result |-> result, err |-> err, again |-> FALSE,
     replaced |-> <<>>]

\* overlap with the comparisons made non-strict, which lets a range that
\* shares a boundary day with an existing period through
overlapBoundaryOpen(ps, pharmacy_id, start_date, end_date) ==
    { i \in DOMAIN ps :
        /\ ps[i].pharmacy_id = pharmacy_id
        /\ ~(ps[i].end_date <= start_date \/ ps[i].start_date >= end_date) }

\* overlap with the two bound parameters bound in the wrong order
\* (end_date < end OR start_date > start)
overlapSwappedBounds(ps, pharmacy_id, start_date, end_date) ==
    { i \in DOMAIN ps :
        /\ ps[i].pharmacy_id = pharmacy_id
        /\ ~(ps[i].end_date < end_date \/ ps[i].start_date > start_date) }

\* SELECT id FROM periods WHERE pharmacy_id = ? AND NOT (end_date < ? OR start_date > ?)
overlap(ps, pharmacy_id, start_date, end_date) ==
    { i \in DOMAIN ps :
        /\ ps[i].pharmacy_id = pharmacy_id
        /\ ~(ps[i].end_date < start_date \/ ps[i].start_date > end_date) }

\* PeriodsByBounds with end_date compared to the start bound
PeriodsByBoundsWrongEnd(ps, pharmacy_id, start_iso, end_iso) ==
    { i \in DOMAIN ps :
        /\ ps[i].pharmacy_id = pharmacy_id
        /\ ps[i].start_date = start_iso
        /\ ps[i].end_date = start_iso }

\* SELECT ... FROM periods WHERE pharmacy_id=? AND start_date=? AND end_date=?
PeriodsByBounds(ps, pharmacy_id, start_iso, end_iso) ==
    { i \in DOMAIN ps :
        /\ ps[i].pharmacy_id = pharmacy_id
        /\ ps[i].start_date = start_iso
        /\ ps[i].end_date = end_iso }

\* the row INSERTed by new_period
PeriodRow(pharmacy_id, title, start_date, end_date) ==
    [ pharmacy_id |-> pharmacy_id, title |-> title,
      start_date |-> start_date, end_date |-> end_date, status |-> "open" ]

\* new_period without its overlap check
NewPeriodOutcomeUnchecked(phs, ps, pharmacy_id, title, start_date, end_date) ==
    IF pharmacy_id \notin phs
    THEN <<"IntegrityError", ps, 0>>
    ELSE <<"", Append(ps, PeriodRow(pharmacy_id, title, start_date, end_date)),
           Len(ps) + 1>>

\* outcome of new_period on tables (phs, ps): <<err, periods', lastrowid>>
\* (a row whose pharmacy_id names no pharmacy violates the FOREIGN KEY,
\*  PRAGMA foreign_keys = ON; an exception leaves the connection uncommitted)
NewPeriodOutcome(phs, ps, pharmacy_id, title, start_date, end_date) ==
    IF overlap(ps, pharmacy_id, start_date, end_date) # {}
    THEN <<"PeriodOverlapError", ps, 0>>
    ELSE IF pharmacy_id \notin phs
    THEN <<"IntegrityError", ps, 0>>
    ELSE <<"", Append(ps, PeriodRow(pharmacy_id, title, start_date, end_date)),
           Len(ps) + 1>>

Init ==
    /\ pharmacies = {}
    /\ periods = <<>>
    /\ period_metrics = <<>>
    /\ now = 1
    /\ lastCall = Call("migrate", 0, "")
    /\ monthResult = [k \in (1..MaxPharmacies) \X Months |-> 0]
    /\ conn = [w \in Workers |-> IdleConn]
    /\ writer = 0
    /\ InitFlow

\* new_pharmacy(title)
NewPharmacy ==
    /\ Cardinality(pharmacies) < MaxPharmacies
    /\ LET id == Cardinality(pharmacies) + 1
       IN  /\ pharmacies' = pharmacies \cup {id}
           /\ lastCall' = Call("new_pharmacy", id, "")
    /\ UNCHANGED <<periods, period_metrics, now, monthResult, connVars, flowVars>>

\* new_period(pharmacy_id, title, start_date, end_date)
NewPeriod(pharmacy_id, title, start_date, end_date) ==
    LET out == NewPeriodOutcome(pharmacies, periods, pharmacy_id, title,
                                start_date, end_date)
    IN  /\ (out[1] = "" => Len(periods) < MaxPeriods)
        /\ periods' = out[2]
        /\ lastCall' = Call("new_period", out[3], out[1])
        /\ UNCHANGED <<pharmacies, period_metrics, now, monthResult, connVars, flowVars>>

\* upsert_metrics_cash(pharmacy_id, period_id, raw...) at time t
\* (both FOREIGN KEYs are enforced; on a violation nothing is committed)
UpsertMetricsCash(pharmacy_id, period_id, raw, t) ==
    /\ now' = t
    /\ IF pharmacy_id \in pharmacies /\ period_id \in DOMAIN periods
       THEN /\ period_metrics' =
                   UpsertedMetrics(period_metrics, pharmacy_id, period_id, raw, t)
            /\ lastCall' =
                   [ Call("upsert_metrics_cash", 0, "") EXCEPT
                     !.again =
                         /\ <<pharmacy_id, period_id>> \in DOMAIN period_metrics
                         /\ RawInputsOf(period_metrics[<<pharmacy_id, period_id>>])
                               = raw ]
       ELSE /\ period_metrics' = period_metrics
            /\ lastCall' = Call("upsert_metrics_cash", 0, "IntegrityError")
    /\ UNCHANGED <<pharmacies, periods, monthResult, connVars, flowVars>>

\* start, end, days = jalali_month_bounds(jy, jm), tabulated over Months
MonthBoundsOf == [ym \in Months |-> jalali_month_bounds(ym[1], ym[2])]

\* title = f"{jy}-{jm:02d} (شمسی)"
MonthTitle(jy, jm) == <<"month", jy, jm>>

\* a title that new_period is given by a caller other than
\* get_or_create_month_period
CustomTitle == <<"custom">>

\* get_or_create_month_period(pharmacy_id, jy, jm) at time t
GetOrCreateMonthPeriod(pharmacy_id, jy, jm, t) ==
    LET b == MonthBoundsOf[<<jy, jm>>]
        start_iso == isoformat(b[1])
        end_iso == isoformat(b[2])
        found == PeriodsByBounds(periods, pharmacy_id, start_iso, end_iso)
        out == NewPeriodOutcome(pharmacies, periods, pharmacy_id, MonthTitle(jy, jm),
                                start_iso, end_iso)
        key == <<pharmacy_id, <<jy, jm>>>>
    IN  IF found # {}
        THEN \* row = c.fetchone(): the first matching row
             LET id == CHOOSE i \in found : \A j \in found : i <= j
             IN  /\ lastCall' = Call("get_or_create_month_period", id, "")
                 /\ monthResult' = [monthResult EXCEPT ![key] = id]
                 /\ UNCHANGED <<pharmacies, periods, period_metrics, now, connVars, flowVars>>
        ELSE IF out[1] # ""
        THEN \* new_period raised; the exception propagates
             /\ lastCall' = Call("get_or_create_month_period", 0, out[1])
             /\ UNCHANGED <<pharmacies, periods, period_metrics, now, monthResult,
                            connVars, flowVars>>
        ELSE /\ Len(periods) < MaxPeriods
             /\ periods' = out[2]
             /\ period_metrics' =
                    UpsertedMetrics(period_metrics, pharmacy_id, out[3],
                                    RawOf(0, 0, 0, 0, 0, 0, 0, b[3]), t)
             /\ now' = t
             /\ lastCall' = Call("get_or_create_month_period", out[3], "")
             /\ monthResult' = [monthResult EXCEPT ![key] = out[3]]
             /\ UNCHANGED <<pharmacies, connVars, flowVars>>

\* the period_metrics table after
\* UPDATE period_metrics SET locked_at = datetime('now') WHERE period_id = ? AND basis = 'cash'
LockedMetrics(m, period_id, t) ==
    [k \in DOMAIN m |->
        IF k[2] = period_id THEN [m[k] EXCEPT !.locked_at = <<t>>] ELSE m[k]]

\* set_period_status(period_id, status) at time t
SetPeriodStatus(period_id, status, t) ==
    /\ periods' = [i \in DOMAIN periods |->
                      IF i = period_id THEN [periods[i] EXCEPT !.status = status]
                      ELSE periods[i]]
    /\ IF status = "closed"
       THEN /\ period_metrics' = LockedMetrics(period_metrics, period_id, t)
            /\ now' = t
       ELSE UNCHANGED <<period_metrics, now>>
    /\ lastCall' = Call("set_period_status", 0, "")
    /\ UNCHANGED <<pharmacies, monthResult, connVars, flowVars>>

\* the values datetime('now') can return for the next statement
Times == {t \in {now, now + 1} : t <= MaxClock}

Next ==
    \/ NewPharmacy
    \/ \E ph \in 1..MaxPharmacies, s \in TestDates, e \in TestDates :
          NewPeriod(ph, CustomTitle, s, e)
    \/ \E ph \in 1..MaxPharmacies, ym \in Months, t \in Times :
          GetOrCreateMonthPeriod(ph, ym[1], ym[2], t)
    \/ \E ph \in 1..MaxPharmacies, pid \in 1..MaxPeriods, raw \in StoreRaws,
          t \in Times :
          \* callers pass a period together with its own pharmacy
          /\ pid \in DOMAIN periods => ph = periods[pid].pharmacy_id
          /\ UpsertMetricsCash(ph, pid, raw, t)
    \/ \E pid \in 1..MaxPeriods, st \in Statuses, t \in Times :
          SetPeriodStatus(pid, st, t)

Spec == Init /\ [][Next]_vars

(***************************************************************************)
(* The period store on its own: the operations that create rows            *)
(* (new_pharmacy, new_period, get_or_create_month_period), from the empty  *)
(* database.                                                               *)
(***************************************************************************)
NextPeriods ==
    \/ NewPharmacy
    \/ \E ph \in 1..MaxPharmacies, s \in TestDates, e \in TestDates :
          NewPeriod(ph, CustomTitle, s, e)
    \/ \E ph \in 1..MaxPharmacies, ym \in Months, t \in Times :
          GetOrCreateMonthPeriod(ph, ym[1], ym[2], t)

SpecPeriods == Init /\ [][NextPeriods]_vars

(***************************************************************************)
(* Status changes and recomputes on an existing store: pharmacy 1 with the *)
(* period of 1404-01 made by get_or_create_month_period (metrics row       *)
(* seeded with days_count 31) and a period made by new_period (no metrics  *)
(* row).                                                                   *)
(***************************************************************************)
InitLock ==
    /\ pharmacies = {1}
    /\ periods = << PeriodRow(1, MonthTitle(1404, 1),
                              isoformat(MonthBoundsOf[<<1404, 1>>][1]),
                              isoformat(MonthBoundsOf[<<1404, 1>>][2])),
                    PeriodRow(1, CustomTitle, 20250219, 20250320) >>
    /\ period_metrics =
          UpsertedMetrics(<<>>, 1, 1,
                          RawOf(0, 0, 0, 0, 0, 0, 0, MonthBoundsOf[<<1404, 1>>][3]),
                          1)
    /\ now = 1
    /\ lastCall = Call("new_period", 2, "")
    /\ monthResult = [k \in (1..MaxPharmacies) \X Months |->
                         IF k = <<1, <<1404, 1>>>> THEN 1 ELSE 0]
    /\ conn = [w \in Workers |-> IdleConn]
    /\ writer = 0
    /\ InitFlow

NextLock ==
    \/ \E pid \in {1, 2}, raw \in StoreRaws, t \in Times :
          UpsertMetricsCash(1, pid, raw, t)
    \/ \E pid \in {1, 2}, st \in Statuses, t \in Times :
          SetPeriodStatus(pid, st, t)

SpecLock == InitLock /\ [][NextLock]_vars

(***************************************************************************)
(* Concurrent callers of new_period.  Each call runs on its own connection *)
(* (db_conn).  The sqlite3 module opens no transaction for a SELECT, so    *)
(* the overlap SELECT reads the committed tables and holds no lock once it *)
(* has returned; the INSERT implicitly begins a deferred transaction and   *)
(* takes the write lock, which the commit at the end of the with-block     *)
(* releases.  A second writer waits for the lock and, after the busy       *)
(* timeout, fails with OperationalError("database is locked").             *)
(***************************************************************************)
InitConc ==
    /\ pharmacies = 1..MaxPharmacies
    /\ periods = <<>>
    /\ period_metrics = <<>>
    /\ now = 1
    /\ lastCall = Call("new_pharmacy", MaxPharmacies, "")
    /\ monthResult = [k \in (1..MaxPharmacies) \X Months |-> 0]
    /\ conn = [w \in Workers |-> IdleConn]
    /\ writer = 0
    /\ InitFlow

\* a caller enters new_period(pharmacy_id, title, start_date, end_date)
ConcCall(w, pharmacy_id, start_date, end_date) ==
    /\ conn[w].pc = "idle"
    /\ conn' = [conn EXCEPT ![w] =
                   [ pc |-> "select", pharmacy_id |-> pharmacy_id,
                     start_date |-> start_date, end_date |-> end_date,
                     result |-> 0, err |-> "" ]]
    /\ UNCHANGED <<storeVars, writer, flowVars>>

\* c.execute(SELECT ...); overlap = c.fetchone(); if overlap: raise
ConcSelect(w) ==
    /\ conn[w].pc = "select"
    /\ IF overlap(periods, conn[w].pharmacy_id, conn[w].start_date,
                  conn[w].end_date) # {}
       THEN conn' = [conn EXCEPT ![w].pc = "done",
                                 ![w].err = "PeriodOverlapError"]
       ELSE conn' = [conn EXCEPT ![w].pc = "insert"]
    /\ UNCHANGED <<storeVars, writer, flowVars>>

\* c.execute(INSERT ...): the connection takes the write lock
ConcInsert(w) ==
    /\ conn[w].pc = "insert"
    /\ writer = 0
    /\ Len(periods) < MaxPeriods
    /\ IF conn[w].pharmacy_id \in pharmacies
       THEN /\ writer' = w
            /\ conn' = [conn EXCEPT ![w].pc = "commit"]
       ELSE /\ writer' = 0
            /\ conn' = [conn EXCEPT ![w].pc = "done",
                                     ![w].err = "IntegrityError"]
    /\ UNCHANGED <<storeVars, flowVars>>

\* c.execute(INSERT ...) while another connection holds the write lock
\* until the busy timeout expires
ConcInsertBusy(w) ==
    /\ conn[w].pc = "insert"
    /\ writer \notin {0, w}
    /\ conn' = [conn EXCEPT ![w].pc = "done", ![w].err = "OperationalError"]
    /\ UNCHANGED <<storeVars, writer, flowVars>>

\* return c.lastrowid; conn.commit(): the row becomes visible
ConcCommit(w) ==
    /\ conn[w].pc = "commit"
    /\ writer = w
    /\ periods' = Append(periods,
                         PeriodRow(conn[w].pharmacy_id, CustomTitle,
                                   conn[w].start_date, conn[w].end_date))
    /\ conn' = [conn EXCEPT ![w].pc = "done", ![w].result = Len(periods) + 1]
    /\ writer' = 0
    /\ UNCHANGED <<pharmacies, period_metrics, now, lastCall, monthResult,
                   flowVars>>

NextConc ==
    \/ \E w \in Workers, ph \in 1..MaxPharmacies, s \in TestDates,
          e \in TestDates : ConcCall(w, ph, s, e)
    \/ \E w \in Workers : ConcSelect(w)
    \/ \E w \in Workers : ConcInsert(w)
    \/ \E w \in Workers : ConcInsertBusy(w)
    \/ \E w \in Workers : ConcCommit(w)

SpecConc == InitConc /\ [][NextConc]_vars

(***************************************************************************)
(* The KPI arithmetic on its own: one pharmacy with one period that was    *)
(* created by new_period (so the first upsert INSERTs the metrics row and  *)
(* the later ones take the ON CONFLICT branch), exercised over AllRaws.    *)
(***************************************************************************)
InitMetrics ==
    /\ pharmacies = {1}
    /\ periods = <<PeriodRow(1, CustomTitle, 20250219, 20250320)>>
    /\ period_metrics = <<>>
    /\ now = 1
    /\ lastCall = Call("new_period", 1, "")
    /\ monthResult = [k \in (1..MaxPharmacies) \X Months |-> 0]
    /\ conn = [w \in Workers |-> IdleConn]
    /\ writer = 0
    /\ InitFlow

NextMetrics ==
    \E raw \in AllRaws, t \in Times : UpsertMetricsCash(1, 1, raw, t)

SpecMetrics == InitMetrics /\ [][NextMetrics]_vars

(***************************************************************************)
(* Concurrent callers of upsert_metrics_cash for the key (1, 1).  Each     *)
(* call runs on its own connection: the INSERT .. ON CONFLICT implicitly   *)
(* begins a transaction and takes the write lock, the UPDATE of the        *)
(* derived columns runs in the same transaction, and conn.commit() at the  *)
(* end of the with-block publishes both and releases the lock.  A caller   *)
(* whose INSERT finds the lock taken waits and, after the busy timeout,    *)
(* fails with OperationalError; nothing of it is committed.                *)
(***************************************************************************)
\* raw inputs the concurrent callers pass: the scenario and a loss-making one
ConcRaws == { RawOf(12, 8, 6, 4, 2, 1, 500, 30), RawOf(0, 8, 30, 0, 2, 0, 0, 30) }

\* the committed table if every statement were committed on its own
AutocommitWrite(m, key, row) ==
    [k \in DOMAIN m \cup {key} |-> IF k = key THEN row ELSE m[k]]

\* the committed table after a statement that wrote row inside a
\* transaction still open: unchanged until conn.commit()
UncommittedWrite(m, key, row) == m

\* a caller enters upsert_metrics_cash(1, 1, raw)
UpsertCall(w, raw) ==
    /\ conn[w].pc \in {"idle", "done"}
    /\ conn' = [conn EXCEPT ![w] =
                   [pc |-> "insert", raw |-> raw, row |-> <<>>, err |-> ""]]
    /\ UNCHANGED <<storeVars, writer, flowVars>>

\* c.execute(INSERT .. ON CONFLICT DO UPDATE ..): takes the write lock and
\* writes the raw columns, computed_at = datetime('now')
UpsertInsert(w, t) ==
    /\ conn[w].pc = "insert"
    /\ writer = 0
    /\ LET row == IF <<1, 1>> \in DOMAIN period_metrics
                  THEN ConflictUpdatedRow(period_metrics[<<1, 1>>], conn[w].raw, t)
                  ELSE InsertedRow(conn[w].raw, t)
       IN  /\ conn' = [conn EXCEPT ![w].pc = "update", ![w].row = row]
           /\ period_metrics' = UncommittedWrite(period_metrics, <<1, 1>>, row)
    /\ writer' = w
    /\ now' = t
    /\ UNCHANGED <<pharmacies, periods, lastCall, monthResult, flowVars>>

\* c.execute(INSERT ..) while another connection holds the write lock until
\* the busy timeout expires
UpsertInsertBusy(w) ==
    /\ conn[w].pc = "insert"
    /\ writer \notin {0, w}
    /\ conn' = [conn EXCEPT ![w].pc = "done", ![w].err = "OperationalError"]
    /\ UNCHANGED <<storeVars, writer, flowVars>>

\* c.execute(UPDATE period_metrics SET <derived columns> WHERE ..)
UpsertUpdate(w) ==
    /\ conn[w].pc = "update"
    /\ writer = w
    /\ LET row == DerivedUpdatedRow(conn[w].row)
       IN  /\ conn' = [conn EXCEPT ![w].pc = "commit", ![w].row = row]
           /\ period_metrics' = UncommittedWrite(period_metrics, <<1, 1>>, row)
    /\ UNCHANGED <<pharmacies, periods, now, lastCall, monthResult, writer,
                   flowVars>>

\* conn.commit(): the row becomes visible and the lock is released
UpsertCommit(w) ==
    /\ conn[w].pc = "commit"
    /\ writer = w
    /\ period_metrics' =
          [k \in DOMAIN period_metrics \cup {<<1, 1>>} |->
              IF k = <<1, 1>> THEN conn[w].row ELSE period_metrics[k]]
    /\ conn' = [conn EXCEPT ![w].pc = "done"]
    /\ writer' = 0
    /\ UNCHANGED <<pharmacies, periods, now, lastCall, monthResult, flowVars>>

NextUpsertConc ==
    \/ \E w \in Workers, raw \in ConcRaws : UpsertCall(w, raw)
    \/ \E w \in Workers, t \in Times : UpsertInsert(w, t)
    \/ \E w \in Workers : UpsertInsertBusy(w)
    \/ \E w \in Workers : UpsertUpdate(w)
    \/ \E w \in Workers : UpsertCommit(w)

SpecUpsertConc == InitMetrics /\ [][NextUpsertConc]_vars

(***************************************************************************)
(* Daily logs: upsert_daily_log and the daily entry conversation           *)
(* (cb_daily_start, cb_daily_pick_day, msg_daily_flow), each handler taken *)
(* as the operation it performs when it is called with the update.         *)
(* A daily_logs row is a record of the columns the INSERT lists; its id is *)
(* its index.  A note is <<>> (None) or <<text>>.                          *)
(***************************************************************************)
\* sales_cash, sales_ins, var_purchases, opex_other, visits, note
QuantitiesOf(sc, si, vp, ox, vis, note) ==
    [ sales_cash |-> sc, sales_ins |-> si, var_purchases |-> vp,
      opex_other |-> ox, visits |-> vis, note |-> note ]

\* quantities passed to upsert_daily_log directly: a full entry, the
\* defaults of the signature (all 0, note None) and a partial entry
DailyInputs ==
    { QuantitiesOf(5, 3, 2, 1, 10, <<"note">>),
      QuantitiesOf(0, 0, 0, 0, 0, <<>>),
      QuantitiesOf(7, 0, 0, 0, 0, <<>>) }

\* Gregorian ISO log dates passed to upsert_daily_log directly
LogDates == {20250319, 20250321}

\* values of date.today() when the conversation starts
Todays == {<<2025, 3, 19>>, <<2025, 3, 21>>}

\* buttons of the day picker the user presses
PickDays == {1, 30}

\* a text is the sequence of its characters
DecimalDigits == <<"0", "1", "2", "3", "4", "5", "6", "7", "8", "9">>

\* c.isdigit()
IsDigit(c) == \E i \in DOMAIN DecimalDigits : DecimalDigits[i] = c

DigitValue(c) == (CHOOSE i \in DOMAIN DecimalDigits : DecimalDigits[i] = c) - 1

\* the number a sequence of digits writes, 0 for the empty one
RECURSIVE DigitsValue(_)
DigitsValue(s) ==
    IF s = <<>> THEN 0
    ELSE DigitsValue(SubSeq(s, 1, Len(s) - 1)) * 10 + DigitValue(s[Len(s)])

RECURSIVE Pow10(_)
Pow10(n) == IF n = 0 THEN 1 ELSE 10 * Pow10(n - 1)

\* s.lstrip(chars) and s.rstrip(chars)
RECURSIVE LStrip(_, _)
LStrip(s, chars) ==
    IF s # <<>> /\ s[1] \in chars THEN LStrip(Tail(s), chars) ELSE s

RECURSIVE RStrip(_, _)
RStrip(s, chars) ==
    IF s # <<>> /\ s[Len(s)] \in chars
    THEN RStrip(SubSeq(s, 1, Len(s) - 1), chars)
    ELSE s

\* s.strip()
Strip(s) == RStrip(LStrip(s, {" "}), {" "})

IsNotComma(c) == c # ","

\* s.replace(",", "").lower(), for the letters of the suffixes
Normalized(s) ==
    LET t == SelectSeq(s, IsNotComma)
    IN  [ i \in DOMAIN t |->
            IF t[i] = "K" THEN "k" ELSE IF t[i] = "M" THEN "m"
            ELSE IF t[i] = "B" THEN "b" ELSE t[i] ]

\* float(core) for a core made of signs, digits and dots: <<>> when it
\* raises ValueError, <<the REAL>> otherwise
FloatOf(core) ==
    LET signed == core # <<>> /\ core[1] \in {"+", "-"}
        body == IF signed THEN Tail(core) ELSE core
        dots == {i \in DOMAIN body : body[i] = "."}
        dot == IF dots = {} THEN Len(body) + 1 ELSE CHOOSE i \in dots : TRUE
        int_part == SubSeq(body, 1, dot - 1)
        frac_part == SubSeq(body, dot + 1, Len(body))
        mag == Frac(DigitsValue(int_part) * Pow10(Len(frac_part))
                       + DigitsValue(frac_part),
                    Pow10(Len(frac_part)))
    IN  IF \/ Cardinality(dots) > 1
           \/ \E i \in DOMAIN body : ~IsDigit(body[i]) /\ body[i] # "."
           \/ ~\E i \in DOMAIN body : IsDigit(body[i])
        THEN <<>>
        ELSE IF signed /\ core[1] = "-" THEN << <<-mag[1], mag[2]>> >>
        ELSE <<mag>>

\* the reply (None, message)
ParseError == [err |-> TRUE, value |-> 0]

\* a parser that reads a text it cannot parse as 0
parse_smart_number_lenient(raw) ==
    LET s == Normalized(Strip(raw))
    IN  IF s # <<>> /\ \A i \in DOMAIN s : IsDigit(s[i])
        THEN [err |-> FALSE, value |-> DigitsValue(s)]
        ELSE [err |-> FALSE, value |-> 0]

\* parse_smart_number(raw, as_int=True): (None, message) or (value, None)
parse_smart_number(raw) ==
    LET s == Normalized(Strip(raw))
        suffixed == s # <<>> /\ s[Len(s)] \in {"b", "m", "k"}
        factor == IF ~suffixed THEN 1
                  ELSE IF s[Len(s)] = "b" THEN 1000000000
                  ELSE IF s[Len(s)] = "m" THEN 1000000
                  ELSE 1000
        core == IF suffixed THEN SubSeq(s, 1, Len(s) - 1) ELSE s
        core_check == LStrip(core, {"+", "-"})
    IN  IF s = <<>> THEN ParseError
        ELSE IF core = <<>> \/ \E i \in DOMAIN core : core[i] = " "
        THEN ParseError
        ELSE IF \/ Cardinality({i \in DOMAIN core_check : core_check[i] = "."}) > 1
                \/ core_check = <<>>
                \/ \E i \in DOMAIN core_check :
                      ~IsDigit(core_check[i]) /\ core_check[i] # "."
        THEN ParseError
        ELSE IF FloatOf(core) = <<>> THEN ParseError
        ELSE [ err |-> FALSE,
               value |-> RoundHalfEven(Frac(FloatOf(core)[1][1] * factor,
                                            FloatOf(core)[1][2])) ]

\* texts the owner replies with: 7, 2.5k and 2,500 read as numbers; a
\* blank text, a space before the suffix, a letter, two dots, a lone dot
\* and two signs do not
ReplyTexts ==
    { <<"7">>, <<"2", ".", "5", "k">>, <<" ", "2", ",", "5", "0", "0">>,
      <<" ", " ">>, <<"1", " ", "k">>, <<"x">>,
      <<"1", ".", "2", ".", "3">>, <<".">>, <<"+", "-", "5">> }

\* what parse_smart_number(text, as_int=True) returns for the replies "x"
\* and "7"
Replies == { parse_smart_number(<<"x">>), parse_smart_number(<<"7">>) }

DailyLogRow(pharmacy_id, log_date, q) ==
    [ pharmacy_id |-> pharmacy_id, log_date |-> log_date,
      sales_cash |-> q.sales_cash, sales_ins |-> q.sales_ins,
      var_purchases |-> q.var_purchases, opex_other |-> q.opex_other,
      visits |-> q.visits, note |-> q.note ]

\* the ids of the rows with the key (pharmacy_id, log_date)
DailyLogIds(logs, pharmacy_id, log_date) ==
    { i \in DOMAIN logs :
        logs[i].pharmacy_id = pharmacy_id /\ logs[i].log_date = log_date }

\* the upsert written as an accumulation: on a conflict the quantities add
\* excluded.* to the row's values
AccumulatedDailyLogs(logs, pharmacy_id, log_date, q) ==
    IF DailyLogIds(logs, pharmacy_id, log_date) = {}
    THEN Append(logs, DailyLogRow(pharmacy_id, log_date, q))
    ELSE [ i \in DOMAIN logs |->
             IF i \in DailyLogIds(logs, pharmacy_id, log_date)
             THEN [ logs[i] EXCEPT
                    !.sales_cash = logs[i].sales_cash + q.sales_cash,
                    !.sales_ins = logs[i].sales_ins + q.sales_ins,
                    !.var_purchases = logs[i].var_purchases + q.var_purchases,
                    !.opex_other = logs[i].opex_other + q.opex_other,
                    !.visits = logs[i].visits + q.visits,
                    !.note = q.note ]
             ELSE logs[i] ]

\* INSERT INTO daily_logs(..) VALUES (..) ON CONFLICT (pharmacy_id, log_date)
\* DO UPDATE SET <the six quantity columns> = excluded.*
UpsertedDailyLogs(logs, pharmacy_id, log_date, q) ==
    IF DailyLogIds(logs, pharmacy_id, log_date) = {}
    THEN Append(logs, DailyLogRow(pharmacy_id, log_date, q))
    ELSE [ i \in DOMAIN logs |->
             IF i \in DailyLogIds(logs, pharmacy_id, log_date)
             THEN DailyLogRow(pharmacy_id, log_date, q)
             ELSE logs[i] ]

\* the row with the key (pharmacy_id, log_date) before the upsert, if any
ReplacedDailyLog(logs, pharmacy_id, log_date) ==
    IF DailyLogIds(logs, pharmacy_id, log_date) = {} THEN <<>>
    ELSE <<logs[CHOOSE i \in DailyLogIds(logs, pharmacy_id, log_date) : TRUE]>>

\* upsert_daily_log(pharmacy_id, log_date, ...): the FOREIGN KEY on
\* pharmacy_id is enforced; on a violation nothing is committed
UpsertDailyLog(pharmacy_id, log_date, q) ==
    /\ IF pharmacy_id \in pharmacies
       THEN /\ daily_logs' = UpsertedDailyLogs(daily_logs, pharmacy_id, log_date, q)
            /\ Len(daily_logs') <= MaxLogs
            /\ lastCall' =
                   [ Call("upsert_daily_log", 0, "") EXCEPT
                     !.replaced = ReplacedDailyLog(daily_logs, pharmacy_id, log_date) ]
       ELSE /\ daily_logs' = daily_logs
            /\ lastCall' = Call("upsert_daily_log", 0, "IntegrityError")
    /\ UNCHANGED <<pharmacies, periods, period_metrics, now, monthResult,
                   connVars, daily, cal, viewVars>>

\* iso_date = f"{jy:04d}-{jm:02d}-{day:02d}" of a day picker button
DayPickerIso(jy, jm, day) == jy * 10000 + jm * 100 + day

\* "data": {} of a conversation just started
EmptyData ==
    [k \in {"sales_cash", "sales_ins", "visits", "fixed_cost"} |-> <<>>]

fields_sequence == <<"sales_cash", "sales_ins", "visits", "fixed_cost">>

\* every key read as the cash sales
PayloadGetCash(data, key) ==
    IF data["sales_cash"] = <<>> THEN 0 ELSE data["sales_cash"][1]

\* payload.get(key, 0)
PayloadGet(data, key) == IF data[key] = <<>> THEN 0 ELSE data[key][1]

\* cb_daily_start: callback data daily.start:<pharmacy_id>
CbDailyStart(pharmacy_id) ==
    /\ daily' = [ pharmacy_id |-> pharmacy_id, step |-> 0, date |-> <<>>,
                  data |-> EmptyData ]
    /\ UNCHANGED <<storeVars, connVars, daily_logs, cal, viewVars>>

\* cb_daily_pick_day: the user presses the button `day` of the picker that
\* cb_daily_start built on the day `today` (for the Jalali month of today)
CbDailyPickDay(today, day, pharmacy_id) ==
    LET j == gregorian_to_jalali(today)
    IN  /\ day \in 1..jalali_month_bounds(j[1], j[2])[3]
        /\ IF daily = NoDaily \/ daily.pharmacy_id # pharmacy_id
           THEN daily' = daily
           ELSE daily' = [ daily EXCEPT
                           !.date = <<DayPickerIso(j[1], j[2], day)>>,
                           !.step = 1 ]
        /\ UNCHANGED <<storeVars, connVars, daily_logs, cal, viewVars>>

\* msg_daily_flow: a text reply of the owner arrives on the day `today`;
\* reply is what parse_smart_number made of its text
MsgDailyFlow(today, reply) ==
    IF daily = NoDaily
    THEN /\ handled' = Handled("msg_daily_flow", 1, "")
         /\ UNCHANGED <<storeVars, connVars, daily_logs, daily, cal, quietVars>>
    ELSE IF reply.err
    THEN /\ handled' = Handled("msg_daily_flow", 1, "msg_daily_flow_invalid")
         /\ UNCHANGED <<storeVars, connVars, daily_logs, daily, cal, quietVars>>
    ELSE IF daily.step < 1 \/ daily.step > Len(fields_sequence)
    THEN /\ daily' = NoDaily
         /\ handled' = Handled("msg_daily_flow", 1, "msg_daily_flow_unknown_step")
         /\ UNCHANGED <<storeVars, connVars, daily_logs, cal, quietVars>>
    ELSE LET key == fields_sequence[daily.step]
             state == [ daily EXCEPT !.data[key] = <<reply.value>>,
                                     !.step = daily.step + 1 ]
             log_date == IF state.date = <<>> THEN isoformat(today)
                         ELSE state.date[1]
             q == QuantitiesOf(PayloadGet(state.data, "sales_cash"),
                               PayloadGet(state.data, "sales_ins"),
                               0,
                               PayloadGet(state.data, "fixed_cost"),
                               PayloadGet(state.data, "visits"),
                               <<>>)
         IN  IF state.step <= Len(fields_sequence)
             THEN /\ daily' = state
                  /\ handled' = Handled("msg_daily_flow", 1,
                                        "msg_daily_flow_next_prompt")
                  /\ UNCHANGED <<storeVars, connVars, daily_logs, cal, quietVars>>
             ELSE IF state.pharmacy_id \in pharmacies
             THEN /\ daily_logs' = UpsertedDailyLogs(daily_logs, state.pharmacy_id,
                                                     log_date, q)
                  /\ Len(daily_logs') <= MaxLogs
                  /\ lastCall' =
                         [ Call("upsert_daily_log", 0, "") EXCEPT
                           !.replaced = ReplacedDailyLog(daily_logs,
                                                         state.pharmacy_id, log_date) ]
                  /\ daily' = NoDaily
                  /\ handled' = Handled("msg_daily_flow", 1,
                                        "msg_daily_flow_complete")
                  /\ UNCHANGED <<pharmacies, periods, period_metrics, now,
                                 monthResult, connVars, cal, quietVars>>
             ELSE \* upsert_daily_log raises: no answer is sent
                  /\ lastCall' = Call("upsert_daily_log", 0, "IntegrityError")
                  /\ daily' = state
                  /\ handled' = Handled("msg_daily_flow", 1, "")
                  /\ UNCHANGED <<pharmacies, periods, period_metrics, now,
                                 monthResult, connVars, daily_logs, cal, quietVars>>

NextDailyLog ==
    \/ NewPharmacy
    \/ \E ph \in 1..MaxPharmacies, d \in LogDates, q \in DailyInputs :
          UpsertDailyLog(ph, d, q)

SpecDailyLog == Init /\ [][NextDailyLog]_vars

NextDaily ==
    \/ NewPharmacy
    \/ \E ph \in 1..MaxPharmacies : CbDailyStart(ph)
    \/ \E today \in Todays, day \in PickDays, ph \in 1..MaxPharmacies :
          CbDailyPickDay(today, day, ph)
    \/ \E today \in Todays, reply \in Replies : MsgDailyFlow(today, reply)

SpecDaily == Init /\ [][NextDaily]_vars

\* the daily entry conversation of pharmacy 1 on 2025-03-19, the owner
\* pressing day 30 of the picker and replying with the texts of ReplyTexts
InitDailyFlow ==
    /\ pharmacies = {1}
    /\ periods = <<>>
    /\ period_metrics = <<>>
    /\ now = 1
    /\ lastCall = Call("new_pharmacy", 1, "")
    /\ monthResult = [k \in (1..MaxPharmacies) \X Months |-> 0]
    /\ conn = [w \in Workers |-> IdleConn]
    /\ writer = 0
    /\ InitFlow

NextDailyFlow ==
    \/ CbDailyStart(1)
    \/ CbDailyPickDay(<<2025, 3, 19>>, 30, 1)
    \/ \E text \in ReplyTexts :
          MsgDailyFlow(<<2025, 3, 19>>, parse_smart_number(text))

SpecDailyFlow == InitDailyFlow /\ [][NextDailyFlow]_vars

(***************************************************************************)
(* The calendar converter on its own: the conversions applied to every     *)
(* Gregorian day of 2024 and 2025 (a Gregorian leap year, and the end of   *)
(* the Jalali leap year 1403 on 2025-03-20) and jalali_month_bounds        *)
(* applied to every month of the Jalali years 1398 .. 1409 (leap: 1399,    *)
(* 1403, 1408).                                                            *)
(***************************************************************************)
CalDates ==
    { <<y, m, d>> : y \in {2024, 2025}, m \in 1..12, d \in 1..31 }
        \ { <<y, m, d>> \in {2024, 2025} \X (1..12) \X (1..31) :
                d > GregorianDim(y, m) }

CalMonths == (1398..1409) \X (1..12)

\* gregorian_to_jalali(d) and jalali_to_gregorian of its result, tabulated
RoundTripOf ==
    [ d \in CalDates |->
        LET j == gregorian_to_jalali(d)
        IN  <<j, jalali_to_gregorian(j[1], j[2], j[3])>> ]

\* jalali_month_bounds(jy, jm), tabulated over CalMonths
CalMonthBounds == [ym \in CalMonths |-> jalali_month_bounds(ym[1], ym[2])]

\* j = gregorian_to_jalali(d); back = jalali_to_gregorian(*j)
ConvertAndBack(d) ==
    /\ cal' = [ op |-> "gregorian_to_jalali", d |-> d,
                j |-> RoundTripOf[d][1], back |-> RoundTripOf[d][2] ]
    /\ UNCHANGED <<storeVars, connVars, daily_logs, daily, viewVars>>

\* start, end, days = jalali_month_bounds(jy, jm)
MonthBounds(jy, jm) ==
    /\ cal' = [ op |-> "jalali_month_bounds", jy |-> jy, jm |-> jm,
                start |-> CalMonthBounds[<<jy, jm>>][1],
                end |-> CalMonthBounds[<<jy, jm>>][2],
                days |-> CalMonthBounds[<<jy, jm>>][3] ]
    /\ UNCHANGED <<storeVars, connVars, daily_logs, daily, viewVars>>

NextCalendar ==
    \/ \E d \in CalDates : ConvertAndBack(d)
    \/ \E ym \in CalMonths : MonthBounds(ym[1], ym[2])

SpecCalendar == Init /\ [][NextCalendar]_vars

(***************************************************************************)
(* The weekly report (cb_weekly_report): the window of at most seven days  *)
(* it derives from the period row, and the per-day entries and totals it   *)
(* renders from get_daily_range.                                           *)
(***************************************************************************)
\* date + timedelta(days=1)
PlusOneDay(d) ==
    IF d[3] < GregorianDim(d[1], d[2]) THEN <<d[1], d[2], d[3] + 1>>
    ELSE IF d[2] < 12 THEN <<d[1], d[2] + 1, 1>>
    ELSE <<d[1] + 1, 1, 1>>

\* date + timedelta(days=n)
RECURSIVE PlusDays(_, _)
PlusDays(d, n) == IF n = 0 THEN d ELSE PlusDays(PlusOneDay(d), n - 1)

\* date - timedelta(days=n)
RECURSIVE MinusDays(_, _)
MinusDays(d, n) == IF n = 0 THEN d ELSE MinusDays(MinusOneDay(d), n - 1)

\* date.fromisoformat(s): <<date>>, or <<>> where it raises ValueError
fromisoformat(s) ==
    LET y == s \div 10000
        m == (s \div 100) % 100
        d == s % 100
    IN  IF y \in 1..9999 /\ m \in 1..12 /\ d >= 1 /\ d <= GregorianDim(y, m)
        THEN << <<y, m, d>> >>
        ELSE <<>>

\* the window of a period that always reaches six days back from the end
PeriodWindowNoClip(start_date, end_date) ==
    LET swap == toordinal(end_date) < toordinal(start_date)
        period_end_date == IF swap THEN start_date ELSE end_date
    IN  <<MinusDays(period_end_date, 6), period_end_date>>

\* <<window_start, window_end>> assigned inside the try block from the two
\* parsed bounds of the period row
PeriodWindow(start_date, end_date) ==
    LET swap == toordinal(end_date) < toordinal(start_date)
        period_start_date == IF swap THEN end_date ELSE start_date
        period_end_date == IF swap THEN start_date ELSE end_date
        period_length ==
            (toordinal(period_end_date) - toordinal(period_start_date)) + 1
        candidate_start == MinusDays(period_end_date, 6)
    IN  IF period_length >= 7
        THEN << IF toordinal(candidate_start) >= toordinal(period_start_date)
                THEN candidate_start ELSE period_start_date,
                period_end_date >>
        ELSE <<period_start_date, period_end_date>>

\* <<window_start, window_end>> of cb_weekly_report on the day `today`;
\* period_info is <<>> (no row) or <<row>>
WeeklyWindow(today, period_info) ==
    LET fallback == <<MinusDays(today, 6), today>>
        w == IF period_info = <<>> THEN fallback
             ELSE IF \/ fromisoformat(period_info[1].start_date) = <<>>
                     \/ fromisoformat(period_info[1].end_date) = <<>>
             THEN fallback
             ELSE PeriodWindow(fromisoformat(period_info[1].start_date)[1],
                               fromisoformat(period_info[1].end_date)[1])
    IN  IF toordinal(w[2]) < toordinal(w[1]) THEN <<w[2], w[2]>> ELSE w

\* get_daily_range without the condition on pharmacy_id
get_daily_range_any_pharmacy(logs, pharmacy_id, start_iso, end_iso) ==
    { i \in DOMAIN logs :
        logs[i].log_date >= start_iso /\ logs[i].log_date <= end_iso }

\* get_daily_range(pharmacy_id, start_iso, end_iso): the ids of the rows
\* SELECTed (UNIQUE (pharmacy_id, log_date): one row per log_date)
get_daily_range(logs, pharmacy_id, start_iso, end_iso) ==
    { i \in DOMAIN logs :
        /\ logs[i].pharmacy_id = pharmacy_id
        /\ logs[i].log_date >= start_iso
        /\ logs[i].log_date <= end_iso }

\* log_map.get(day_iso): <<record>> or <<>>
LogMapGet(logs, ids, day_iso) ==
    IF \E i \in ids : logs[i].log_date = day_iso
    THEN <<logs[CHOOSE i \in ids : logs[i].log_date = day_iso]>>
    ELSE <<>>

\* the values of one line of the report
WeeklyEntry(day_iso, record) ==
    IF record # <<>>
    THEN [ day |-> day_iso,
           sales_cash |-> record[1].sales_cash,
           sales_ins |-> record[1].sales_ins,
           var_purchases |-> record[1].var_purchases,
           opex_other |-> record[1].opex_other,
           visits |-> record[1].visits,
           note_display |-> IF record[1].note = <<>> THEN "-"
                            ELSE record[1].note[1] ]
    ELSE [ day |-> day_iso, sales_cash |-> 0, sales_ins |-> 0,
           var_purchases |-> 0, opex_other |-> 0, visits |-> 0,
           note_display |-> "no entry" ]

\* one line per day of full_days
WeeklyEntries(logs, ids, window_start, window_end) ==
    [ i \in 1..((toordinal(window_end) - toordinal(window_start)) + 1) |->
        WeeklyEntry(isoformat(PlusDays(window_start, i - 1)),
                    LogMapGet(logs, ids, isoformat(PlusDays(window_start, i - 1)))) ]

\* total_<key> after the loop over full_days
RECURSIVE WeeklyTotal(_, _)
WeeklyTotal(entries, key) ==
    IF entries = <<>> THEN 0
    ELSE entries[1][key] + WeeklyTotal(Tail(entries), key)

\* cb_weekly_report for the callback data fin.weekly.report:<pharmacy_id>:
\* <period_id>, on the day `today`
CbWeeklyReport(today, pharmacy_id, period_id) ==
    LET period_info == IF period_id # 0 /\ period_id \in DOMAIN periods
                       THEN <<periods[period_id]>> ELSE <<>>
        window == WeeklyWindow(today, period_info)
        ids == get_daily_range(daily_logs, pharmacy_id,
                               isoformat(window[1]), isoformat(window[2]))
        entries == WeeklyEntries(daily_logs, ids, window[1], window[2])
    IN  /\ weekly' =
              [ op |-> "cb_weekly_report", pharmacy_id |-> pharmacy_id,
                period_id |-> period_id, today |-> today,
                period_info |-> period_info,
                window_start |-> window[1], window_end |-> window[2],
                entries |-> entries,
                totals |->
                    [ sales_cash |-> WeeklyTotal(entries, "sales_cash"),
                      sales_ins |-> WeeklyTotal(entries, "sales_ins"),
                      var_purchases |-> WeeklyTotal(entries, "var_purchases"),
                      opex_other |-> WeeklyTotal(entries, "opex_other"),
                      visits |-> WeeklyTotal(entries, "visits") ] ]
        /\ UNCHANGED <<storeVars, connVars, daily_logs, daily, cal, compare, sim,
                       sim_view, appVars>>

\* <<start_date, end_date>> passed to new_period: 3 days, 7 days, 9 days,
\* end before start, and a start that is no calendar day
WeeklyBounds ==
    { <<20250227, 20250301>>, <<20250225, 20250303>>, <<20250223, 20250303>>,
      <<20250303, 20250225>>, <<20250230, 20250303>> }

\* values of date.today() when the report is asked for
WeeklyTodays == {<<2025, 3, 4>>}

NextWeeklyWindow ==
    \/ NewPharmacy
    \/ \E ph \in 1..MaxPharmacies, b \in WeeklyBounds :
          NewPeriod(ph, CustomTitle, b[1], b[2])
    \/ \E today \in WeeklyTodays, ph \in 1..MaxPharmacies, pid \in 0..MaxPeriods :
          \* the menus pass a period together with its own pharmacy
          /\ pid \in DOMAIN periods => ph = periods[pid].pharmacy_id
          /\ pid \notin DOMAIN periods => ph = 1
          /\ CbWeeklyReport(today, ph, pid)

SpecWeeklyWindow == Init /\ [][NextWeeklyWindow]_vars

\* <<pharmacy_id, log_date, quantities>> of the calls of upsert_daily_log
\* the report is taken over: log dates inside the 3-day period, inside
\* [today - 6, today] only and after today, for two pharmacies
WeeklyLogs ==
    { <<1, 20250228, QuantitiesOf(5, 3, 2, 1, 10, <<"note">>)>>,
      <<1, 20250228, QuantitiesOf(7, 0, 0, 0, 0, <<>>)>>,
      <<1, 20250303, QuantitiesOf(5, 3, 2, 1, 10, <<"note">>)>>,
      <<1, 20250305, QuantitiesOf(5, 3, 2, 1, 10, <<"note">>)>>,
      <<2, 20250228, QuantitiesOf(7, 0, 0, 0, 0, <<>>)>>,
      <<2, 20250303, QuantitiesOf(7, 0, 0, 0, 0, <<>>)>> }

\* pharmacies 1 and 2, the 3-day period of pharmacy 1 made by new_period,
\* no daily log yet
InitWeeklyReport ==
    /\ pharmacies = {1, 2}
    /\ periods = <<PeriodRow(1, CustomTitle, 20250227, 20250301)>>
    /\ period_metrics = <<>>
    /\ now = 1
    /\ lastCall = Call("new_period", 1, "")
    /\ monthResult = [k \in (1..MaxPharmacies) \X Months |-> 0]
    /\ conn = [w \in Workers |-> IdleConn]
    /\ writer = 0
    /\ InitFlow

NextWeeklyReport ==
    \/ \E l \in WeeklyLogs : UpsertDailyLog(l[1], l[2], l[3])
    \/ \E today \in WeeklyTodays, ph \in {1, 2}, pid \in {0, 1} :
          CbWeeklyReport(today, ph, pid)

SpecWeeklyReport == InitWeeklyReport /\ [][NextWeeklyReport]_vars

(***************************************************************************)
(* The comparator (render_compare_table): one row per tracked metric with  *)
(* the two displayed values and the delta column.  A cell is a number      *)
(* (mark "") or a mark without a number.                                   *)
(***************************************************************************)
\* a - b and abs(a) for two REALs
FracSub(a, b) == Frac(a[1] * b[2] - b[1] * a[2], a[2] * b[2])

FracAbs(a) == <<Abs(a[1]), a[2]>>

\* the marks "-" and the em dash of the delta column
Dash == "-"

EmDash == "em dash"

NumberCell(n) == [mark |-> "", value |-> n]

MarkCell(mark) == [mark |-> mark, value |-> 0]

\* fmt_money(x): f"{float(x):,.0f}", the amount rounded to a whole number
fmt_money(x) == NumberCell(RoundHalfEven(x))

\* fmt_percent(x): f"{(float(x) * 100):.1f}", as the number of tenths of a
\* percent
fmt_percent(x) == NumberCell(RoundHalfEven(Frac(x[1] * 1000, x[2])))

\* the columns of period_metrics the model holds as integers (the others
\* are REAL quotients)
IntegerColumns ==
    { "sales_cash", "sales_ins", "sales_total", "var_total", "fixed_total",
      "opex_other_total", "gross_profit", "net_profit_operational" }

\* the keys of the add_row calls and the ones passed with is_percent=True
CompareKeys ==
    IntegerColumns \cup
        { "cm_ratio", "np_ratio", "breakeven_sales", "avg_daily_sales",
          "avg_sale_per_visit" }

PercentKeys == {"cm_ratio", "np_ratio"}

\* safe_num(m, k): <<float(v)>>, or <<>> for None; m is <<>> for the {} of
\* a missing metrics row, else <<row>>
safe_num(m, k) ==
    IF m = <<>> THEN <<>>
    ELSE IF k \in IntegerColumns THEN <<Frac(m[1][k], 1)>>
    ELSE <<m[1][k]>>

\* display_num(m, k), and the is_percent variant of the cell
display_num(m, k) ==
    IF safe_num(m, k) = <<>> THEN MarkCell(Dash)
    ELSE fmt_money(safe_num(m, k)[1])

display_percent(m, k) ==
    IF safe_num(m, k) = <<>> THEN MarkCell(Dash)
    ELSE fmt_percent(safe_num(m, k)[1])

\* the delta column with a zero baseline reported like a failed division
AddRowDeltaZeroAsDash(av, bv) ==
    IF av # <<>> /\ av[1] # RealZero
    THEN fmt_percent(FracDiv(IF bv # <<>> /\ bv[1] # RealZero THEN bv[1]
                             ELSE FracSub(RealZero, av[1]),
                             FracAbs(av[1])))
    ELSE MarkCell(Dash)

\* the delta column of add_row; `bv or 0 - av` is bv when bv is neither
\* None nor 0, else 0 - av
AddRowDelta(av, bv) ==
    IF av # <<>> /\ av[1] # RealZero
    THEN fmt_percent(FracDiv(IF bv # <<>> /\ bv[1] # RealZero THEN bv[1]
                             ELSE FracSub(RealZero, av[1]),
                             FracAbs(av[1])))
    ELSE IF av = <<RealZero>> /\ bv # <<>> /\ bv[1] # RealZero
    THEN MarkCell(EmDash)
    ELSE MarkCell(Dash)

\* add_row(label, key, is_percent) on the rows a and b
add_row(a, b, key, is_percent) ==
    [ left |-> IF is_percent THEN display_percent(a, key) ELSE display_num(a, key),
      right |-> IF is_percent THEN display_percent(b, key) ELSE display_num(b, key),
      delta |-> AddRowDelta(safe_num(a, key), safe_num(b, key)) ]

\* get_metrics(pharmacy_id, period_id) or {}
MetricsOrEmpty(m, pharmacy_id, period_id) ==
    IF <<pharmacy_id, period_id>> \in DOMAIN m
    THEN <<m[<<pharmacy_id, period_id>>]>> ELSE <<>>

\* render_compare_table(pharmacy_id, period_a_id, period_b_id)
RenderCompareTable(pharmacy_id, period_a_id, period_b_id) ==
    LET a == MetricsOrEmpty(period_metrics, pharmacy_id, period_a_id)
        b == MetricsOrEmpty(period_metrics, pharmacy_id, period_b_id)
    IN  /\ compare' =
              [ op |-> "render_compare_table", pharmacy_id |-> pharmacy_id,
                period_a_id |-> period_a_id, period_b_id |-> period_b_id,
                a |-> a, b |-> b,
                rows |-> [key \in CompareKeys |->
                             add_row(a, b, key, key \in PercentKeys)] ]
        /\ UNCHANGED <<storeVars, connVars, daily_logs, daily, cal, weekly, sim,
                       sim_view, appVars>>

\* raw inputs of the two compared months: all zero, the scenario, and an
\* entry without insurance sales and other expenses
CompareRaws ==
    { RawOf(0, 0, 0, 0, 0, 0, 0, 0), RawOf(12, 8, 6, 4, 2, 1, 500, 30),
      RawOf(12, 0, 6, 4, 2, 0, 500, 30) }

\* pharmacy 1 with two consecutive periods made by new_period; neither has
\* a metrics row yet
InitCompare ==
    /\ pharmacies = {1}
    /\ periods = << PeriodRow(1, CustomTitle, 20250219, 20250320),
                    PeriodRow(1, CustomTitle, 20250321, 20250420) >>
    /\ period_metrics = <<>>
    /\ now = 1
    /\ lastCall = Call("new_period", 2, "")
    /\ monthResult = [k \in (1..MaxPharmacies) \X Months |-> 0]
    /\ conn = [w \in Workers |-> IdleConn]
    /\ writer = 0
    /\ InitFlow

NextCompare ==
    \/ \E pid \in {1, 2}, raw \in CompareRaws : UpsertMetricsCash(1, pid, raw, now)
    \/ \E ids \in {<<1, 2>>, <<2, 1>>} : RenderCompareTable(1, ids[1], ids[2])

SpecCompare == InitCompare /\ [][NextCompare]_vars

(***************************************************************************)
(* The what-if simulator: compute_simulated and the handlers cb_sim_menu,  *)
(* cb_sim_delta, cb_sim_reset and cb_sim_back, each taken as the operation *)
(* it performs when it is called with the update.  A delta is held in      *)
(* percent (0.05 is 5), so the steps are +-5 and +-10 and the clamp bounds *)
(* are -30 and 30; the simulated amounts are REALs.                        *)
(***************************************************************************)
\* clamp without the lower bound
clampUpperOnly(value, min_val, max_val) ==
    IF max_val < value THEN max_val ELSE value

\* clamp(value, min_val, max_val) = max(min_val, min(max_val, value))
clamp(value, min_val, max_val) ==
    LET upper == IF max_val < value THEN max_val ELSE value
    IN  IF min_val > upper THEN min_val ELSE upper

\* {"sales": 0.0, "var": 0.0, "fixed": 0.0}
ZeroDeltas == [sales |-> 0, var |-> 0, fixed |-> 0]

\* the keys compute_simulated reads from a baseline, taken from a metrics row
BaselineOf(row) ==
    [ sales_total |-> row.sales_total, var_total |-> row.var_total,
      fixed_total |-> row.fixed_total,
      opex_other_total |-> row.opex_other_total,
      visits_total |-> row.visits_total, days_count |-> row.days_count ]

\* the baseline all of whose keys are missing or 0
EmptyBaseline ==
    [ sales_total |-> 0, var_total |-> 0, fixed_total |-> 0,
      opex_other_total |-> 0, visits_total |-> 0, days_count |-> 0 ]

\* get_period_baseline(pharmacy_id, period_id): the in-memory snapshot of
\* the period's aggregates, read from the metrics table m
get_period_baseline(m, pharmacy_id, period_id) ==
    IF <<pharmacy_id, period_id>> \in DOMAIN m
    THEN BaselineOf(m[<<pharmacy_id, period_id>>])
    ELSE EmptyBaseline

\* base adjusted against the direction of the delta
SimScaledDown(base, delta) == Frac(base * (100 - delta), 100)

\* base * (1.0 + delta)
SimScaled(base, delta) == Frac(base * (100 + delta), 100)

\* compute_simulated(baseline, deltas)
compute_simulated(baseline, deltas) ==
    LET new_sales == SimScaled(baseline.sales_total, deltas.sales)
        new_var == SimScaled(baseline.var_total, deltas.var)
        new_fixed == SimScaled(baseline.fixed_total, deltas.fixed)
        opex_other_total == Frac(baseline.opex_other_total, 1)
        gross_profit == FracSub(new_sales, new_var)
        net_profit_operational ==
            FracSub(FracSub(gross_profit, new_fixed), opex_other_total)
        cm_ratio == IF new_sales # RealZero
                    THEN FracDiv(FracSub(new_sales, new_var), new_sales)
                    ELSE RealZero
    IN  [ sales_total |-> new_sales,
          var_total |-> new_var,
          fixed_total |-> new_fixed,
          opex_other_total |-> opex_other_total,
          visits_total |-> baseline.visits_total,
          days_count |-> baseline.days_count,
          gross_profit |-> gross_profit,
          net_profit_operational |-> net_profit_operational,
          cm_ratio |-> cm_ratio,
          np_ratio |-> IF new_sales # RealZero
                       THEN FracDiv(net_profit_operational, new_sales)
                       ELSE RealZero,
          breakeven_sales |-> IF cm_ratio # RealZero
                              THEN FracDiv(new_fixed, cm_ratio)
                              ELSE RealZero,
          avg_daily_sales |-> IF baseline.days_count # 0
                              THEN FracDiv(new_sales, Frac(baseline.days_count, 1))
                              ELSE RealZero,
          avg_sale_per_visit |-> IF baseline.visits_total # 0
                                 THEN FracDiv(new_sales,
                                              Frac(baseline.visits_total, 1))
                                 ELSE RealZero ]

\* render_sim_text(period_row, sim_out, deltas): the text shows the period,
\* the simulated values and the deltas
render_sim_text(period_row, sim_out, deltas) ==
    [period_row |-> period_row, sim_out |-> sim_out, deltas |-> deltas]

\* sim_keyboard(pharmacy_id, period_id): the buttons carry the two ids
sim_keyboard(pharmacy_id, period_id) == <<pharmacy_id, period_id>>

\* a session is kept for any period of the same pharmacy
SimStateMatchesPharmacy(s, pharmacy_id, period_id) ==
    /\ s # <<>>
    /\ s[1].pharmacy_id = pharmacy_id

\* the condition under which a handler keeps context.user_data["sim"]
SimStateMatches(s, pharmacy_id, period_id) ==
    /\ s # <<>>
    /\ s[1].pharmacy_id = pharmacy_id
    /\ s[1].period_id = period_id

\* the session a handler stores when none matches
NewSimState(pharmacy_id, period_id, baseline) ==
    [ pharmacy_id |-> pharmacy_id, period_id |-> period_id,
      deltas |-> ZeroDeltas, baseline |-> baseline ]

\* sim_state a handler works on
SimStateFor(s, m, pharmacy_id, period_id) ==
    IF SimStateMatches(s, pharmacy_id, period_id) THEN s[1]
    ELSE NewSimState(pharmacy_id, period_id,
                     get_period_baseline(m, pharmacy_id, period_id))

\* the step applied to every delta
DeltaAdjustedAll(deltas, kind, step) ==
    [k \in DOMAIN deltas |-> clamp(deltas[k] + step, -30, 30)]

\* deltas[kind] = clamp(current_val + step, -0.30, 0.30)
DeltaAdjusted(deltas, kind, step) ==
    [deltas EXCEPT ![kind] = clamp(deltas[kind] + step, -30, 30)]

\* a reset that leaves the deltas as they are
SimStateKept(sim_state) == sim_state

\* sim_state["deltas"] = {"sales": 0.0, "var": 0.0, "fixed": 0.0}
SimStateReset(sim_state) == [sim_state EXCEPT !.deltas = ZeroDeltas]

\* a lookup that closes the period it reads
AfterGetPeriodClosing(ps, period_id) ==
    IF period_id \in DOMAIN ps
    THEN [ps EXCEPT ![period_id].status = "closed"]
    ELSE ps

\* the periods table after get_period(period_id): its transaction runs one
\* SELECT, and the commit of db_conn() has nothing to store
AfterGetPeriod(ps, period_id) == ps

\* get_period(period_id) or {}
PeriodOrEmpty(ps, period_id) ==
    IF period_id \in DOMAIN ps THEN <<ps[period_id]>> ELSE <<>>

\* the message a handler sends for the request (pharmacy_id, period_id) and
\* the session sim_state it worked on
\* crossed (history): the request was an adjust whose current_val + step
\*   lies outside the clamp bounds
\* cleared (history): the deltas a reset replaced, ZeroDeltas otherwise
\* switched (history): the caller held non-zero deltas for another pair
SimMessage(op, pharmacy_id, period_id, sim_state, crossed, cleared, before) ==
    [ op |-> op,
      text |-> render_sim_text(PeriodOrEmpty(periods, period_id),
                               compute_simulated(sim_state.baseline,
                                                 sim_state.deltas),
                               sim_state.deltas),
      kb |-> sim_keyboard(pharmacy_id, period_id),
      crossed |-> crossed, cleared |-> cleared,
      switched |-> /\ before # NoSim
                   /\ <<before[1].pharmacy_id, before[1].period_id>>
                         # <<pharmacy_id, period_id>>
                   /\ before[1].deltas # ZeroDeltas ]

\* cb_sim_menu for the callback data fin.sim.menu:<pharmacy_id>:<period_id>
CbSimMenu(pharmacy_id, period_id) ==
    LET sim_state == SimStateFor(sim, period_metrics, pharmacy_id, period_id)
    IN  /\ sim' = <<sim_state>>
        /\ sim_view' = SimMessage("cb_sim_menu", pharmacy_id, period_id, sim_state,
                                  FALSE, ZeroDeltas,
                                  sim)
        /\ periods' = AfterGetPeriod(periods, period_id)
        /\ UNCHANGED <<pharmacies, period_metrics, now, lastCall, monthResult,
                       connVars, daily_logs, daily, cal, weekly, compare,
                       appVars>>

\* cb_sim_delta for fin.sim.delta:<ph_id>:<period_id>:<kind>:<sign>:<pct>
CbSimDelta(pharmacy_id, period_id, kind, sign, pct_val) ==
    LET step == IF sign = "minus" THEN -pct_val ELSE pct_val
        old == SimStateFor(sim, period_metrics, pharmacy_id, period_id)
        sim_state == [old EXCEPT !.deltas = DeltaAdjusted(old.deltas, kind, step)]
    IN  /\ sim' = <<sim_state>>
        /\ sim_view' = SimMessage("cb_sim_delta", pharmacy_id, period_id, sim_state,
                                  old.deltas[kind] + step > 30
                                     \/ old.deltas[kind] + step < -30,
                                  ZeroDeltas,
                                  sim)
        /\ periods' = AfterGetPeriod(periods, period_id)
        /\ UNCHANGED <<pharmacies, period_metrics, now, lastCall, monthResult,
                       connVars, daily_logs, daily, cal, weekly, compare,
                       appVars>>

\* cb_sim_reset for fin.sim.reset:<ph_id>:<period_id>
CbSimReset(pharmacy_id, period_id) ==
    LET sim_state ==
            IF SimStateMatches(sim, pharmacy_id, period_id)
            THEN SimStateReset(sim[1])
            ELSE SimStateFor(sim, period_metrics, pharmacy_id, period_id)
    IN  /\ sim' = <<sim_state>>
        /\ sim_view' = SimMessage("cb_sim_reset", pharmacy_id, period_id, sim_state,
                                  FALSE,
                                  IF SimStateMatches(sim, pharmacy_id, period_id)
                                  THEN sim[1].deltas ELSE ZeroDeltas,
                                  sim)
        /\ periods' = AfterGetPeriod(periods, period_id)
        /\ UNCHANGED <<pharmacies, period_metrics, now, lastCall, monthResult,
                       connVars, daily_logs, daily, cal, weekly, compare,
                       appVars>>

\* cb_sim_back for fin.sim.back:<ph_id>:<period_id>: a missing period is
\* reported and the session kept; a start_date that date.fromisoformat
\* rejects raises before the session is popped
CbSimBack(pharmacy_id, period_id) ==
    /\ periods' = AfterGetPeriod(periods, period_id)
    /\ UNCHANGED <<pharmacies, period_metrics, now, lastCall, monthResult,
                   connVars, daily_logs, daily, cal, weekly, compare,
                       appVars>>
    /\ IF period_id \notin DOMAIN periods
       THEN /\ sim_view' = [op |-> "cb_sim_back", text |-> "period not found"]
            /\ UNCHANGED sim
       ELSE IF fromisoformat(periods[period_id].start_date) = <<>>
       THEN UNCHANGED <<sim, sim_view>>
       ELSE /\ sim' = NoSim
            /\ sim_view' =
                  [ op |-> "cb_sim_back",
                    text |-> gregorian_to_jalali(
                                fromisoformat(periods[period_id].start_date)[1]) ]

\* kind, sign and pct of the delta buttons
SimKinds == {"sales", "var", "fixed"}

SimSigns == {"plus", "minus"}

SimPcts == {5, 10}

\* pharmacy 1 with two periods made by new_period; period 1 holds the
\* metrics of the scenario, period 2 has no metrics row
InitSim ==
    /\ pharmacies = {1}
    /\ periods = << PeriodRow(1, CustomTitle, 20250219, 20250320),
                    PeriodRow(1, CustomTitle, 20250321, 20250420) >>
    /\ period_metrics =
          UpsertedMetrics(<<>>, 1, 1, RawOf(12, 8, 6, 4, 2, 1, 500, 30), 1)
    /\ now = 1
    /\ lastCall = Call("upsert_metrics_cash", 0, "")
    /\ monthResult = [k \in (1..MaxPharmacies) \X Months |-> 0]
    /\ conn = [w \in Workers |-> IdleConn]
    /\ writer = 0
    /\ InitFlow

NextSim ==
    \/ \E pid \in {1, 2} : CbSimMenu(1, pid)
    \/ \E pid \in {1, 2}, kind \in SimKinds, sign \in SimSigns, pct \in SimPcts :
          CbSimDelta(1, pid, kind, sign, pct)
    \/ \E pid \in {1, 2} : CbSimReset(1, pid)
    \/ \E pid \in {1, 2, 3} : CbSimBack(1, pid)

SpecSim == InitSim /\ [][NextSim]_vars

\* raw inputs of the simulated period: the scenario, purchases above the
\* sales, negative sales, no sales, and no day and no visit counted
SimRaws ==
    { RawOf(12, 8, 6, 4, 2, 1, 500, 30), RawOf(12, 0, 30, 4, 2, 1, 500, 30),
      RawOf(-4, 0, 6, 4, 2, 1, 500, 30), RawOf(0, 0, 6, 4, 2, 1, 500, 30),
      RawOf(12, 8, 6, 4, 2, 1, 0, 0) }

\* deltas passed to compute_simulated
SimDeltas ==
    { [sales |-> s, var |-> v, fixed |-> f] :
        s \in {-30, 0, 10}, v \in {-10, 0, 30}, f \in {0, 5} }

\* sim_out = compute_simulated(baseline, deltas) on the aggregates of the
\* stored metrics row of (pharmacy 1, period 1)
ComputeSimulated(deltas) ==
    /\ <<1, 1>> \in DOMAIN period_metrics
    /\ sim_view' =
          [ op |-> "compute_simulated",
            baseline |-> BaselineOf(period_metrics[<<1, 1>>]),
            deltas |-> deltas,
            sim_out |-> compute_simulated(BaselineOf(period_metrics[<<1, 1>>]),
                                          deltas) ]
    /\ UNCHANGED <<storeVars, connVars, daily_logs, daily, cal, weekly,
                   compare, sim, appVars>>

NextSimulate ==
    \/ \E raw \in SimRaws : UpsertMetricsCash(1, 1, raw, now)
    \/ \E deltas \in SimDeltas : ComputeSimulated(deltas)

SpecSimulate == InitMetrics /\ [][NextSimulate]_vars

(***************************************************************************)
(* Two owners use the simulator at the same time.  The application hands   *)
(* every handler the user_data of the user who sent the update, so the     *)
(* second owner's requests run the same handlers on peer_sim; the messages *)
(* sent to the second owner carry chat 2.                                  *)
(***************************************************************************)
\* the message msg, sent to the second owner's chat
PeerMessage(msg) ==
    [k \in DOMAIN msg \cup {"chat"} |-> IF k = "chat" THEN 2 ELSE msg[k]]

\* cb_sim_menu called with an update of the second owner
PeerSimMenu(pharmacy_id, period_id) ==
    LET sim_state == SimStateFor(peer_sim, period_metrics, pharmacy_id, period_id)
    IN  /\ peer_sim' = <<sim_state>>
        /\ sim_view' = PeerMessage(SimMessage("cb_sim_menu", pharmacy_id,
                                              period_id, sim_state, FALSE,
                                              ZeroDeltas,
                                              peer_sim))
        /\ periods' = AfterGetPeriod(periods, period_id)
        /\ UNCHANGED <<pharmacies, period_metrics, now, lastCall, monthResult,
                       connVars, daily_logs, daily, cal, weekly, compare, sim,
                       check, handled>>

\* cb_sim_delta called with an update of the second owner
PeerSimDelta(pharmacy_id, period_id, kind, sign, pct_val) ==
    LET step == IF sign = "minus" THEN -pct_val ELSE pct_val
        old == SimStateFor(peer_sim, period_metrics, pharmacy_id, period_id)
        sim_state == [old EXCEPT !.deltas = DeltaAdjusted(old.deltas, kind, step)]
    IN  /\ peer_sim' = <<sim_state>>
        /\ sim_view' = PeerMessage(SimMessage("cb_sim_delta", pharmacy_id,
                                              period_id, sim_state,
                                              old.deltas[kind] + step > 30
                                                 \/ old.deltas[kind] + step < -30,
                                              ZeroDeltas,
                                              peer_sim))
        /\ periods' = AfterGetPeriod(periods, period_id)
        /\ UNCHANGED <<pharmacies, period_metrics, now, lastCall, monthResult,
                       connVars, daily_logs, daily, cal, weekly, compare, sim,
                       check, handled>>

\* cb_sim_reset called with an update of the second owner
PeerSimReset(pharmacy_id, period_id) ==
    LET sim_state ==
            IF SimStateMatches(peer_sim, pharmacy_id, period_id)
            THEN SimStateReset(peer_sim[1])
            ELSE SimStateFor(peer_sim, period_metrics, pharmacy_id, period_id)
    IN  /\ peer_sim' = <<sim_state>>
        /\ sim_view' = PeerMessage(SimMessage("cb_sim_reset", pharmacy_id,
                                              period_id, sim_state, FALSE,
                                              IF SimStateMatches(peer_sim,
                                                                 pharmacy_id,
                                                                 period_id)
                                              THEN peer_sim[1].deltas
                                              ELSE ZeroDeltas,
                                              peer_sim))
        /\ periods' = AfterGetPeriod(periods, period_id)
        /\ UNCHANGED <<pharmacies, period_metrics, now, lastCall, monthResult,
                       connVars, daily_logs, daily, cal, weekly, compare, sim,
                       check, handled>>

\* cb_sim_back called with an update of the second owner, for a period
\* that exists and whose start_date parses
PeerSimBack(pharmacy_id, period_id) ==
    /\ period_id \in DOMAIN periods
    /\ fromisoformat(periods[period_id].start_date) # <<>>
    /\ peer_sim' = NoSim
    /\ sim_view' =
          [ op |-> "cb_sim_back",
            text |-> gregorian_to_jalali(
                        fromisoformat(periods[period_id].start_date)[1]),
            chat |-> 2 ]
    /\ periods' = AfterGetPeriod(periods, period_id)
    /\ UNCHANGED <<pharmacies, period_metrics, now, lastCall, monthResult,
                   connVars, daily_logs, daily, cal, weekly, compare, sim,
                   check, handled>>

\* the second owner simulates pharmacy 1; the first owner also sends
\* requests that name pharmacy 2 with a period of pharmacy 1
NextSimIsolation ==
    \/ \E ph \in {1, 2}, pid \in {1, 2} : CbSimMenu(ph, pid)
    \/ \E ph \in {1, 2}, pid \in {1, 2}, sign \in SimSigns :
          CbSimDelta(ph, pid, "sales", sign, 10)
    \/ \E pid \in {1, 2} : CbSimReset(1, pid)
    \/ \E pid \in {1, 2} : CbSimBack(1, pid)
    \/ \E pid \in {1, 2} : PeerSimMenu(1, pid)
    \/ \E pid \in {1, 2}, sign \in SimSigns :
          PeerSimDelta(1, pid, "sales", sign, 10)
    \/ \E pid \in {1, 2} : PeerSimReset(1, pid)
    \/ \E pid \in {1, 2} : PeerSimBack(1, pid)

SpecSimIsolation == InitSim /\ [][NextSimIsolation]_vars

(***************************************************************************)
(* The lookups and the flows built on them: find_period_by_bounds,         *)
(* get_period_by_jalali, the comparison with the previous month, the       *)
(* comparison of two picked months and the monthly summary.  Each lookup   *)
(* is a transaction of its own, modelled by the periods table it leaves    *)
(* and the row it returns (<<>> for None, <<id>> for the row found).       *)
(***************************************************************************)
\* the Jalali months the flows are asked about
LookupMonths == Months \cup {<<1403, 11>>}

\* jalali_month_bounds tabulated over LookupMonths
LookupBoundsOf == [ym \in LookupMonths |-> jalali_month_bounds(ym[1], ym[2])]

\* prev_jy, prev_jm = (jy - 1, 12) if jm == 1 else (jy, jm - 1)
PrevMonthOf(jy, jm) == IF jm = 1 THEN <<jy - 1, 12>> ELSE <<jy, jm - 1>>

\* a lookup that inserts the period it does not find
find_or_create_period_by_bounds(ps, pharmacy_id, start_iso, end_iso) ==
    LET found == PeriodsByBounds(ps, pharmacy_id, start_iso, end_iso)
    IN  IF found = {}
        THEN [ periods |-> Append(ps, PeriodRow(pharmacy_id, CustomTitle,
                                                start_iso, end_iso)),
               row |-> <<Len(ps) + 1>> ]
        ELSE [ periods |-> ps,
               row |-> <<CHOOSE i \in found : \A j \in found : i <= j>> ]

\* find_period_by_bounds(pharmacy_id, start_iso, end_iso): one SELECT, whose
\* first row is returned
find_period_by_bounds(ps, pharmacy_id, start_iso, end_iso) ==
    LET found == PeriodsByBounds(ps, pharmacy_id, start_iso, end_iso)
    IN  [ periods |-> ps,
          row |-> IF found = {} THEN <<>>
                  ELSE <<CHOOSE i \in found : \A j \in found : i <= j>> ]

\* get_period_by_jalali(pharmacy_id, jy, jm)
get_period_by_jalali(ps, pharmacy_id, jy, jm) ==
    find_period_by_bounds(ps, pharmacy_id,
                          isoformat(LookupBoundsOf[<<jy, jm>>][1]),
                          isoformat(LookupBoundsOf[<<jy, jm>>][2]))

\* the message of a flow that found no period: which names the month
MissingPeriod(op, pharmacy_id, which) ==
    [op |-> op, pharmacy_id |-> pharmacy_id, missing |-> which]

\* the message of a comparison flow: the table of render_compare_table
CompareMessage(op, pharmacy_id, period_a_id, period_b_id) ==
    LET a == MetricsOrEmpty(period_metrics, pharmacy_id, period_a_id)
        b == MetricsOrEmpty(period_metrics, pharmacy_id, period_b_id)
    IN  [ op |-> op, pharmacy_id |-> pharmacy_id, missing |-> "",
          period_a_id |-> period_a_id, period_b_id |-> period_b_id,
          rows |-> [key \in CompareKeys |->
                       add_row(a, b, key, key \in PercentKeys)] ]

\* cb_compare_prev for fin.compare.prev:<pharmacy_id>:<jy>:<jm>
CbComparePrev(pharmacy_id, jy, jm) ==
    LET prev == PrevMonthOf(jy, jm)
        prev_period == get_period_by_jalali(periods, pharmacy_id,
                                            prev[1], prev[2])
        current_period == get_period_by_jalali(prev_period.periods,
                                               pharmacy_id, jy, jm)
    IN  /\ IF prev_period.row = <<>>
           THEN /\ periods' = prev_period.periods
                /\ compare' = MissingPeriod("cb_compare_prev", pharmacy_id, "prev")
           ELSE /\ periods' = current_period.periods
                /\ compare' =
                      IF current_period.row = <<>>
                      THEN MissingPeriod("cb_compare_prev", pharmacy_id, "current")
                      ELSE CompareMessage("cb_compare_prev", pharmacy_id,
                                          prev_period.row[1],
                                          current_period.row[1])
        /\ UNCHANGED <<pharmacies, period_metrics, now, lastCall, monthResult,
                       connVars, daily_logs, daily, cal, weekly, sim, sim_view,
                       appVars>>

\* cb_compare_pick for fin.compare.pick:<pharmacy_id>:<base_jy>:<base_jm>:<jy>:<jm>
CbComparePick(pharmacy_id, base_jy, base_jm, jy, jm) ==
    LET base_period == get_period_by_jalali(periods, pharmacy_id,
                                            base_jy, base_jm)
        target_period == get_period_by_jalali(base_period.periods,
                                              pharmacy_id, jy, jm)
    IN  /\ IF base_period.row = <<>>
           THEN /\ periods' = base_period.periods
                /\ compare' = MissingPeriod("cb_compare_pick", pharmacy_id, "base")
           ELSE /\ periods' = target_period.periods
                /\ compare' =
                      IF target_period.row = <<>>
                      THEN MissingPeriod("cb_compare_pick", pharmacy_id, "target")
                      ELSE CompareMessage("cb_compare_pick", pharmacy_id,
                                          base_period.row[1],
                                          target_period.row[1])
        /\ UNCHANGED <<pharmacies, period_metrics, now, lastCall, monthResult,
                       connVars, daily_logs, daily, cal, weekly, sim, sim_view,
                       appVars>>

\* change_text of the summary: the gross profit against the previous
\* month's, shown when that month has a period, metrics and a gross profit
\* other than 0
SummaryChange(m, pharmacy_id, gross_profit, prev_row) ==
    IF prev_row = <<>> THEN <<>>
    ELSE LET prev_metrics == MetricsOrEmpty(m, pharmacy_id, prev_row[1])
         IN  IF prev_metrics = <<>> THEN <<>>
             ELSE IF prev_metrics[1].gross_profit = 0 THEN <<>>
             ELSE <<fmt_percent(Frac(gross_profit - prev_metrics[1].gross_profit,
                                     prev_metrics[1].gross_profit))>>

\* cb_summary_pick_month for the callback data of month (jy, jm)
CbSummaryPickMonth(pharmacy_id, jy, jm) ==
    LET period == get_period_by_jalali(periods, pharmacy_id, jy, jm)
        metrics == IF period.row = <<>> THEN <<>>
                   ELSE MetricsOrEmpty(period_metrics, pharmacy_id, period.row[1])
        prev == PrevMonthOf(jy, jm)
        prev_period == get_period_by_jalali(period.periods, pharmacy_id,
                                            prev[1], prev[2])
    IN  /\ IF period.row = <<>>
           THEN /\ periods' = period.periods
                /\ compare' = MissingPeriod("cb_summary_pick_month",
                                            pharmacy_id, "period")
           ELSE IF metrics = <<>>
           THEN /\ periods' = period.periods
                /\ compare' = MissingPeriod("cb_summary_pick_month",
                                            pharmacy_id, "metrics")
           ELSE /\ periods' = prev_period.periods
                /\ compare' =
                      [ op |-> "cb_summary_pick_month",
                        pharmacy_id |-> pharmacy_id, missing |-> "",
                        sales_cash |-> metrics[1].sales_cash,
                        sales_ins |-> metrics[1].sales_ins,
                        sales_total |-> metrics[1].sales_total,
                        visits_total |-> metrics[1].visits_total,
                        fixed_total |-> metrics[1].fixed_total,
                        gross_profit |-> metrics[1].gross_profit,
                        change |-> SummaryChange(period_metrics, pharmacy_id,
                                                 metrics[1].gross_profit,
                                                 prev_period.row) ]
        /\ UNCHANGED <<pharmacies, period_metrics, now, lastCall, monthResult,
                       connVars, daily_logs, daily, cal, weekly, sim, sim_view,
                       appVars>>

\* raw inputs of the months looked up: the scenario and a month without
\* insurance sales
LookupRaws ==
    { RawOf(12, 8, 6, 4, 2, 1, 500, 30), RawOf(12, 0, 6, 4, 2, 0, 500, 30) }

\* pharmacy 1 and no period yet
InitLookups ==
    /\ pharmacies = {1}
    /\ periods = <<>>
    /\ period_metrics = <<>>
    /\ now = 1
    /\ lastCall = Call("new_pharmacy", 1, "")
    /\ monthResult = [k \in (1..MaxPharmacies) \X Months |-> 0]
    /\ conn = [w \in Workers |-> IdleConn]
    /\ writer = 0
    /\ InitFlow

\* months get their periods and metrics while the flows look them up
NextLookups ==
    \/ \E ym \in Months : GetOrCreateMonthPeriod(1, ym[1], ym[2], now)
    \/ \E pid \in {1, 2}, raw \in LookupRaws :
          /\ pid \in DOMAIN periods
          /\ UpsertMetricsCash(1, pid, raw, now)
    \/ \E ym \in Months : CbComparePrev(1, ym[1], ym[2])
    \/ \E base \in Months, ym \in LookupMonths :
          CbComparePick(1, base[1], base[2], ym[1], ym[2])
    \/ \E ym \in Months : CbSummaryPickMonth(1, ym[1], ym[2])

SpecLookups == InitLookups /\ [][NextLookups]_vars

(***************************************************************************)
(* Concurrent callers of get_or_create_month_period.  The lookup, the      *)
(* new_period call and the upsert_metrics_cash seed each open a connection *)
(* of their own with db_conn and commit on leaving it; every one of the    *)
(* three is taken here as one serialized transaction, and the callers      *)
(* interleave between them.                                                *)
(***************************************************************************)
\* the month of Months that starts on start_iso
MonthOfStart(start_iso) ==
    CHOOSE m \in Months : isoformat(MonthBoundsOf[m][1]) = start_iso

\* a caller enters get_or_create_month_period(pharmacy_id, jy, jm)
MonthCall(w, pharmacy_id, jy, jm) ==
    /\ conn[w].pc = "idle"
    /\ conn' = [conn EXCEPT ![w] =
                   [ pc |-> "lookup", pharmacy_id |-> pharmacy_id,
                     start_date |-> isoformat(MonthBoundsOf[<<jy, jm>>][1]),
                     end_date |-> isoformat(MonthBoundsOf[<<jy, jm>>][2]),
                     result |-> 0, err |-> "" ]]
    /\ UNCHANGED <<storeVars, writer, flowVars>>

\* the SELECT by exact bounds: the first row found is returned
MonthLookup(w) ==
    LET found == PeriodsByBounds(periods, conn[w].pharmacy_id,
                                 conn[w].start_date, conn[w].end_date)
    IN  /\ conn[w].pc = "lookup"
        /\ IF found # {}
           THEN conn' = [conn EXCEPT
                           ![w].pc = "done",
                           ![w].result = CHOOSE i \in found :
                                             \A j \in found : i <= j]
           ELSE conn' = [conn EXCEPT ![w].pc = "new_period"]
        /\ UNCHANGED <<storeVars, writer, flowVars>>

\* period_id = new_period(pharmacy_id, title, start_iso, end_iso); an
\* exception leaves get_or_create_month_period
MonthNewPeriod(w) ==
    LET ym == MonthOfStart(conn[w].start_date)
        out == NewPeriodOutcome(pharmacies, periods, conn[w].pharmacy_id,
                                MonthTitle(ym[1], ym[2]), conn[w].start_date,
                                conn[w].end_date)
    IN  /\ conn[w].pc = "new_period"
        /\ (out[1] = "" => Len(periods) < MaxPeriods)
        /\ periods' = out[2]
        /\ IF out[1] = ""
           THEN conn' = [conn EXCEPT ![w].pc = "seed", ![w].result = out[3]]
           ELSE conn' = [conn EXCEPT ![w].pc = "done", ![w].err = out[1]]
        /\ UNCHANGED <<pharmacies, period_metrics, now, lastCall, monthResult,
                       writer, flowVars>>

\* upsert_metrics_cash(pharmacy_id, period_id, 0, .., 0, days); return
MonthSeed(w) ==
    LET ym == MonthOfStart(conn[w].start_date)
    IN  /\ conn[w].pc = "seed"
        /\ period_metrics' =
              UpsertedMetrics(period_metrics, conn[w].pharmacy_id,
                              conn[w].result,
                              RawOf(0, 0, 0, 0, 0, 0, 0, MonthBoundsOf[ym][3]),
                              now)
        /\ conn' = [conn EXCEPT ![w].pc = "done"]
        /\ UNCHANGED <<pharmacies, periods, now, lastCall, monthResult, writer,
                       flowVars>>

\* the caller has returned or raised; its worker takes the next call
MonthReturn(w) ==
    /\ conn[w].pc = "done"
    /\ conn' = [conn EXCEPT ![w] = IdleConn]
    /\ UNCHANGED <<storeVars, writer, flowVars>>

NextMonthConc ==
    \/ \E w \in Workers, ph \in 1..MaxPharmacies, ym \in Months :
          MonthCall(w, ph, ym[1], ym[2])
    \/ \E w \in Workers : MonthLookup(w)
    \/ \E w \in Workers : MonthNewPeriod(w)
    \/ \E w \in Workers : MonthSeed(w)
    \/ \E w \in Workers : MonthReturn(w)

SpecMonthConc == InitConc /\ [][NextMonthConc]_vars

(***************************************************************************)
(* The owner guard, the check registration flow and the handlers as        *)
(* main() registers them.                                                  *)
(***************************************************************************)

\* OWNER_USER_IDS, read from the environment: users 1 and 2 are owners
OWNER_USER_IDS == {1, 2}

\* the users whose updates arrive: owner 1 and user 3, who is no owner
Senders == {1, 3}

\* the guard admits every user
owner_only_access_open(user_id, callback, Handler) == Handler

\* owner_only_access: the wrapper returns before it calls the handler when
\* the update's user is not in OWNER_USER_IDS; handled records that the update
\* reached the wrapper of callback
owner_only_access(user_id, callback, Handler) ==
    IF user_id \notin OWNER_USER_IDS
    THEN /\ handled' = Handled(callback, user_id, "")
         /\ UNCHANGED <<storeVars, connVars, daily_logs, daily, cal, quietVars>>
    ELSE Handler

\* cb_check_start for main.check:<pharmacy_id>
CbCheckStart(pharmacy_id) ==
    /\ check' = [ step |-> 0,
                  data |-> [ pharmacy_id |-> pharmacy_id, date_due |-> <<>>,
                             amount |-> <<>>, recipient |-> <<>> ] ]
    /\ UNCHANGED <<storeVars, connVars, daily_logs, daily, cal, weekly, compare, sim,
                   sim_view, peer_sim, handled>>

\* cb_check_pick_day: the button `day` of the picker that cb_check_start
\* built on the day `today`
CbCheckPickDay(today, day, pharmacy_id) ==
    LET j == gregorian_to_jalali(today)
    IN  /\ day \in 1..jalali_month_bounds(j[1], j[2])[3]
        /\ IF check = NoCheck \/ check.data.pharmacy_id # pharmacy_id
           THEN check' = check
           ELSE check' = [ check EXCEPT
                           !.data.date_due = <<DayPickerIso(j[1], j[2], day)>>,
                           !.step = 1 ]
        /\ UNCHANGED <<storeVars, connVars, daily_logs, daily, cal, weekly, compare, sim,
                       sim_view, peer_sim, handled>>

\* msg_check_flow: a text reply of the owner; without a check session the
\* handler returns without an answer
MsgCheckFlow(text) ==
    LET reply == parse_smart_number(text)
        quiet == UNCHANGED <<storeVars, connVars, daily_logs, daily, cal, weekly,
                             compare, sim, sim_view, peer_sim>>
    IN  IF check = NoCheck
        THEN /\ handled' = Handled("msg_check_flow", 1, "")
             /\ check' = check
             /\ quiet
        ELSE IF check.step = 1
        THEN IF reply.err
             THEN /\ handled' = Handled("msg_check_flow", 1,
                                        "msg_check_flow_amount_error")
                  /\ check' = check
                  /\ quiet
             ELSE IF reply.value <= 0
             THEN /\ handled' = Handled("msg_check_flow", 1,
                                        "msg_check_flow_amount_nonpositive")
                  /\ check' = check
                  /\ quiet
             ELSE /\ check' = [ check EXCEPT !.data.amount = <<reply.value>>,
                                             !.step = 2 ]
                  /\ handled' = Handled("msg_check_flow", 1,
                                        "msg_check_flow_recipient_prompt")
                  /\ quiet
        ELSE IF check.step = 2
        THEN /\ check' = NoCheck
             /\ handled' = Handled("msg_check_flow", 1, "msg_check_flow_complete")
             /\ quiet
        ELSE /\ handled' = Handled("msg_check_flow", 1, "")
             /\ check' = check
             /\ quiet

\* handle_text_message, the one handler without the guard: it answers any
\* user with a hint and changes nothing
HandleTextMessage(user_id) ==
    /\ handled' = Handled("handle_text_message", user_id, "reply_text")
    /\ UNCHANGED <<storeVars, connVars, daily_logs, daily, cal, quietVars>>

\* the handlers of main() that take the modelled updates, in the order of
\* their add_handler calls, each with the kinds of update its filter or
\* pattern accepts; all are in the default group
MainHandlers ==
    << [ callback |-> "cb_check_start", accepts |-> {"main.check"} ],
       [ callback |-> "cb_check_pick_day", accepts |-> {"check.pick_day"} ],
       [ callback |-> "cb_daily_start", accepts |-> {"main.daily"} ],
       [ callback |-> "cb_daily_pick_day", accepts |-> {"daily.pick_day"} ],
       [ callback |-> "msg_check_flow", accepts |-> {"text_reply"} ],
       [ callback |-> "msg_daily_flow", accepts |-> {"text_reply"} ],
       [ callback |-> "handle_text_message", accepts |-> {"text_reply", "text"} ] >>

\* Application.process_update: within a group the first handler whose check
\* accepts the update handles it and no later handler of the group is tried
FirstHandler(kind) ==
    LET matching == {i \in DOMAIN MainHandlers : kind \in MainHandlers[i].accepts}
    IN  MainHandlers[CHOOSE i \in matching : \A k \in matching : i <= k].callback

\* the call of one registered callback for an update of user_id
RunHandler(callback, user_id, text) ==
    CASE callback = "cb_check_start" ->
            owner_only_access(user_id, callback, CbCheckStart(1))
      [] callback = "cb_check_pick_day" ->
            owner_only_access(user_id, callback,
                              CbCheckPickDay(<<2025, 3, 19>>, 30, 1))
      [] callback = "cb_daily_start" ->
            owner_only_access(user_id, callback, CbDailyStart(1))
      [] callback = "cb_daily_pick_day" ->
            owner_only_access(user_id, callback,
                              CbDailyPickDay(<<2025, 3, 19>>, 30, 1))
      [] callback = "msg_check_flow" ->
            owner_only_access(user_id, callback, MsgCheckFlow(text))
      [] callback = "msg_daily_flow" ->
            owner_only_access(user_id, callback,
                              MsgDailyFlow(<<2025, 3, 19>>,
                                           parse_smart_number(text)))
      [] callback = "handle_text_message" -> HandleTextMessage(user_id)

\* one update of the polling loop, handled to its end before the next
ProcessUpdate(user_id, kind, text) ==
    RunHandler(FirstHandler(kind), user_id, text)

\* the texts users send
DispatchTexts == {<<"7">>, <<"0">>, <<"x">>}

CallbackKinds ==
    {"main.check", "check.pick_day", "main.daily",
     "daily.pick_day"}

CallbackUpdate == \E user_id \in Senders, kind \in CallbackKinds :
                     ProcessUpdate(user_id, kind, <<>>)

TextReplyUpdate == \E user_id \in Senders, text \in DispatchTexts :
                      ProcessUpdate(user_id, "text_reply", text)

TextUpdate == \E user_id \in Senders, text \in DispatchTexts :
                 ProcessUpdate(user_id, "text", text)

NextDispatch == CallbackUpdate \/ TextReplyUpdate \/ TextUpdate

SpecDispatch == InitDailyFlow /\ [][NextDispatch]_vars

\* every guarded handler of the daily, check and simulator flows called for
\* an update of user_id
GuardedUpdate(user_id) ==
    \/ owner_only_access(user_id, "cb_daily_start", CbDailyStart(1))
    \/ owner_only_access(user_id, "cb_daily_pick_day",
                         CbDailyPickDay(<<2025, 3, 19>>, 30, 1))
    \/ \E text \in {<<"7">>, <<"x">>} :
          owner_only_access(user_id, "msg_daily_flow",
                            MsgDailyFlow(<<2025, 3, 19>>,
                                         parse_smart_number(text)))
    \/ owner_only_access(user_id, "cb_check_start", CbCheckStart(1))
    \/ owner_only_access(user_id, "cb_check_pick_day",
                         CbCheckPickDay(<<2025, 3, 19>>, 30, 1))
    \/ \E text \in {<<"7">>, <<"x">>} :
          owner_only_access(user_id, "msg_check_flow", MsgCheckFlow(text))
    \/ owner_only_access(user_id, "cb_sim_menu", CbSimMenu(1, 1))
    \/ \E sign \in SimSigns :
          owner_only_access(user_id, "cb_sim_delta",
                            CbSimDelta(1, 1, "sales", sign, 10))

NextGuard == \E user_id \in Senders : GuardedUpdate(user_id)

SpecGuard == InitSim /\ [][NextGuard]_vars

(***************************************************************************)
(* Properties                                                              *)
(***************************************************************************)
\* two inclusive date ranges [s1, e1] and [s2, e2] have a day in common
RangesIntersect(s1, e1, s2, e2) == ~(e1 < s2 \/ s1 > e2)

\* C1: for every pharmacy, no two distinct stored periods have intersecting
\* inclusive date ranges: P1.end < P2.start or P1.start > P2.end.
C1_NoOverlap ==
    \A i, j \in DOMAIN periods :
        (i # j /\ periods[i].pharmacy_id = periods[j].pharmacy_id)
        => (periods[i].end_date < periods[j].start_date
            \/ periods[i].start_date > periods[j].end_date)

\* C1 witness: one pharmacy holds two periods with start <= end, one made by
\* new_period and one by get_or_create_month_period.
C1_Witness ==
    \E i, j \in DOMAIN periods :
        /\ i # j
        /\ periods[i].pharmacy_id = periods[j].pharmacy_id
        /\ periods[i].start_date <= periods[i].end_date
        /\ periods[j].start_date <= periods[j].end_date
        /\ periods[i].title = CustomTitle
        /\ periods[j].title[1] = "month"

\* C2: new_period called with a range that intersects an existing period of
\* the same pharmacy fails with PeriodOverlapError and leaves the periods
\* and period_metrics tables as they were.
C2_OverlapRejected ==
    [][ lastCall'.op = "new_period" =>
        \A ph \in 1..MaxPharmacies, s \in TestDates, e \in TestDates :
            ( /\ NewPeriod(ph, CustomTitle, s, e)
              /\ \E i \in DOMAIN periods :
                    /\ periods[i].pharmacy_id = ph
                    /\ RangesIntersect(periods[i].start_date,
                                       periods[i].end_date, s, e) )
            => ( /\ lastCall'.err = "PeriodOverlapError"
                 /\ periods' = periods
                 /\ period_metrics' = period_metrics ) ]_vars

\* C2 witness: new_period has just been rejected for overlap on a store
\* that holds periods and metrics rows.
C2_Witness ==
    /\ lastCall.op = "new_period"
    /\ lastCall.err = "PeriodOverlapError"
    /\ periods # <<>>
    /\ DOMAIN period_metrics # {}

\* C3 (as claimed): of two new_period calls for the same pharmacy with
\* intersecting ranges that ran concurrently, at most one inserted a period.
C3_AtMostOneInserts ==
    \A v, w \in Workers :
        ( /\ v # w
          /\ conn[v].pc = "done" /\ conn[w].pc = "done"
          /\ conn[v].pharmacy_id = conn[w].pharmacy_id
          /\ RangesIntersect(conn[v].start_date, conn[v].end_date,
                             conn[w].start_date, conn[w].end_date) )
        => ~(conn[v].err = "" /\ conn[w].err = "")

\* C4 (as claimed): every stored period has its cash metrics row.
C4_PeriodHasMetricsRow ==
    \A i \in DOMAIN periods :
        <<periods[i].pharmacy_id, i>> \in DOMAIN period_metrics

\* C5: once get_or_create_month_period has returned a period for a pharmacy
\* and month, every later call for them returns the same id and adds no
\* period and no metrics row.
C5_MonthPeriodIdempotent ==
    [][ lastCall'.op = "get_or_create_month_period" =>
        \A ph \in 1..MaxPharmacies, ym \in Months, t \in Times :
            ( /\ monthResult[<<ph, ym>>] # 0
              /\ GetOrCreateMonthPeriod(ph, ym[1], ym[2], t) )
            => ( /\ lastCall'.err = ""
                 /\ lastCall'.result = monthResult[<<ph, ym>>]
                 /\ periods' = periods
                 /\ period_metrics' = period_metrics ) ]_vars

\* C5 witness: a call has returned period 1, which an earlier
\* get_or_create_month_period created, after another period was created.
C5_Witness ==
    /\ lastCall.op = "get_or_create_month_period"
    /\ lastCall.err = ""
    /\ lastCall.result = 1
    /\ Len(periods) > 1
    /\ periods[1].title[1] = "month"
    /\ \E k \in DOMAIN monthResult : monthResult[k] = 1

\* C6 (as claimed): a period's status only moves open -> pending_approval,
\* pending_approval -> closed or open -> closed.
C6_StatusMachine ==
    [][ \A i \in DOMAIN periods :
          \/ periods'[i].status = periods[i].status
          \/ <<periods[i].status, periods'[i].status>> \in
                { <<"open", "pending_approval">>,
                  <<"pending_approval", "closed">>,
                  <<"open", "closed">> } ]_vars

\* C7: a non-null locked_at stays non-null in every step, and a
\* set_period_status to a status other than 'closed' leaves its value.
C7_LockedAtMonotone ==
    [][ \A k \in DOMAIN period_metrics :
          period_metrics[k].locked_at # <<>> =>
            /\ k \in DOMAIN period_metrics'
            /\ period_metrics'[k].locked_at # <<>>
            /\ ( ( /\ lastCall'.op = "set_period_status"
                   /\ \E pid \in 1..MaxPeriods, st \in Statuses \ {"closed"},
                         t \in Times : SetPeriodStatus(pid, st, t) )
                 => period_metrics'[k].locked_at = period_metrics[k].locked_at )
      ]_vars

\* C7 witness: a locked metrics row was recomputed after it was locked and
\* its period's status has been moved away from 'closed'.
C7_Witness ==
    \E k \in DOMAIN period_metrics :
        /\ period_metrics[k].locked_at # <<>>
        /\ period_metrics[k].computed_at[1] > period_metrics[k].locked_at[1]
        /\ periods[k[2]].status = "pending_approval"
        /\ lastCall.op = "set_period_status"

\* C8 (as claimed): a closed period has a cash metrics row with locked_at set.
C8_ClosedIsLocked ==
    \A i \in DOMAIN periods :
        periods[i].status = "closed" =>
            /\ <<periods[i].pharmacy_id, i>> \in DOMAIN period_metrics
            /\ period_metrics[<<periods[i].pharmacy_id, i>>].locked_at # <<>>

\* C9: every stored metrics row has sales_total = sales_cash + sales_ins,
\* fixed_total = fixed_rent + fixed_staff, gross_profit = sales_total -
\* var_total, contrib_margin = gross_profit and net_profit_operational =
\* gross_profit - fixed_total - opex_other_total.
C9_SumsAndProfits ==
    \A k \in DOMAIN period_metrics :
        LET r == period_metrics[k]
        IN  /\ r.sales_total = r.sales_cash + r.sales_ins
            /\ r.fixed_total = r.fixed_rent + r.fixed_staff
            /\ r.gross_profit = r.sales_total - r.var_total
            /\ r.contrib_margin = r.gross_profit
            /\ r.net_profit_operational =
                   r.gross_profit - r.fixed_total - r.opex_other_total

\* C9 witness: the scenario 6M/4M/3M/2M/1M/0.5M (in units of 500 000) is
\* stored with 10M, 3M, 7M, 7M and 3.5M.
C9_Witness ==
    \E k \in DOMAIN period_metrics :
        LET r == period_metrics[k]
        IN  /\ r.sales_cash = 12 /\ r.sales_ins = 8 /\ r.var_total = 6
            /\ r.fixed_rent = 4 /\ r.fixed_staff = 2 /\ r.opex_other_total = 1
            /\ r.sales_total = 20 /\ r.fixed_total = 6 /\ r.gross_profit = 14
            /\ r.contrib_margin = 14 /\ r.net_profit_operational = 7

\* C10 (as claimed): cm_ratio = contrib_margin / sales_total and np_ratio =
\* net_profit_operational / sales_total for every sales_total # 0, and both
\* are 0 when sales_total = 0.
C10_RatiosForNonZeroSales ==
    \A k \in DOMAIN period_metrics :
        LET r == period_metrics[k]
        IN  IF r.sales_total # 0
            THEN /\ r.cm_ratio = Frac(r.contrib_margin, r.sales_total)
                 /\ r.np_ratio = Frac(r.net_profit_operational, r.sales_total)
            ELSE r.cm_ratio = RealZero /\ r.np_ratio = RealZero

\* C11: upsert_metrics_cash never ends in an error for an existing pharmacy
\* and period, and the stored row has cm_ratio = np_ratio = breakeven_sales
\* = avg_daily_sales = 0 when sales_total = 0, avg_daily_sales = 0 when
\* days_count = 0 and avg_sale_per_visit = 0 when visits_total = 0, whatever
\* the other raw inputs are.
C11_ZeroGuard ==
    /\ lastCall.op = "upsert_metrics_cash" => lastCall.err = ""
    /\ \A k \in DOMAIN period_metrics :
          LET r == period_metrics[k]
          IN  /\ r.sales_total = 0 =>
                    /\ r.cm_ratio = RealZero
                    /\ r.np_ratio = RealZero
                    /\ r.breakeven_sales = RealZero
                    /\ r.avg_daily_sales = RealZero
              /\ r.days_count = 0 => r.avg_daily_sales = RealZero
              /\ r.visits_total = 0 => r.avg_sale_per_visit = RealZero

\* C11 witness: a recompute with sales_total = 0, days_count = 0 and
\* visits_total = 0 but non-zero costs has been stored.
C11_Witness ==
    /\ lastCall.op = "upsert_metrics_cash"
    /\ lastCall.err = ""
    /\ \E k \in DOMAIN period_metrics :
          LET r == period_metrics[k]
          IN  /\ r.sales_total = 0 /\ r.days_count = 0 /\ r.visits_total = 0
              /\ r.var_total = 30 /\ r.fixed_total = 6 /\ r.opex_other_total = 1
              /\ r.net_profit_operational = -37
              /\ r.cm_ratio = RealZero /\ r.avg_sale_per_visit = RealZero

\* C12: in every stored row breakeven_sales = fixed_total / cm_ratio when
\* the row's cm_ratio > 0 and breakeven_sales = 0 when cm_ratio <= 0, so
\* breakeven_sales is not negative when fixed_total is not negative.
C12_BreakevenGuard ==
    \A k \in DOMAIN period_metrics :
        LET r == period_metrics[k]
        IN  /\ IF r.cm_ratio[1] > 0
               THEN r.breakeven_sales =
                        Frac(r.fixed_total * r.cm_ratio[2], r.cm_ratio[1])
               ELSE r.breakeven_sales = RealZero
            /\ r.fixed_total >= 0 => r.breakeven_sales[1] >= 0

\* C12 witness: a row whose variable costs exceed its sales (cm_ratio < 0)
\* with fixed costs is stored with breakeven_sales = 0.
C12_Witness ==
    \E k \in DOMAIN period_metrics :
        LET r == period_metrics[k]
        IN  /\ r.sales_total = 20 /\ r.var_total = 30 /\ r.fixed_total = 6
            /\ r.cm_ratio = <<-1, 2>>
            /\ r.breakeven_sales = RealZero

\* C13: an upsert_metrics_cash whose raw inputs are those the row already
\* holds from the previous call leaves every raw and derived column of the
\* row as it was; only computed_at may differ.
C13_RecomputeIdempotent ==
    [][ \A t \in Times :
           ( /\ <<1, 1>> \in DOMAIN period_metrics
             /\ lastCall.op = "upsert_metrics_cash"
             /\ UpsertMetricsCash(1, 1, RawInputsOf(period_metrics[<<1, 1>>]), t) )
           => [ period_metrics'[<<1, 1>>] EXCEPT
                !.computed_at = period_metrics[<<1, 1>>].computed_at ]
                 = period_metrics[<<1, 1>>] ]_vars

\* C13 witness: the scenario row has just been recomputed a second time
\* from the same raw inputs, at a later time than the first.
C13_Witness ==
    /\ lastCall.op = "upsert_metrics_cash"
    /\ lastCall.again
    /\ <<1, 1>> \in DOMAIN period_metrics
    /\ period_metrics[<<1, 1>>].computed_at = <<2>>
    /\ period_metrics[<<1, 1>>].sales_total = 20
    /\ period_metrics[<<1, 1>>].cm_ratio = <<7, 10>>
    /\ period_metrics[<<1, 1>>].breakeven_sales = <<60, 7>>

\* C14 (as claimed): in every committed state each metrics row's derived
\* columns are the values of the formulas of the metrics engine on the row's
\* own raw inputs (ratios 0 only for a zero denominator, breakeven_sales 0
\* only for cm_ratio <= 0).
C14_DerivedFromRaw ==
    \A k \in DOMAIN period_metrics :
        LET r == period_metrics[k]
            sales_total == r.sales_cash + r.sales_ins
            fixed_total == r.fixed_rent + r.fixed_staff
            gross_profit == sales_total - r.var_total
            net_profit == gross_profit - fixed_total - r.opex_other_total
            cm_ratio == IF sales_total = 0 THEN RealZero
                        ELSE Frac(gross_profit, sales_total)
        IN  /\ r.sales_total = sales_total
            /\ r.fixed_total = fixed_total
            /\ r.gross_profit = gross_profit
            /\ r.contrib_margin = gross_profit
            /\ r.net_profit_operational = net_profit
            /\ r.cm_ratio = cm_ratio
            /\ r.np_ratio = IF sales_total = 0 THEN RealZero
                            ELSE Frac(net_profit, sales_total)
            /\ r.breakeven_sales =
                   IF cm_ratio[1] <= 0 THEN RealZero
                   ELSE Frac(fixed_total * cm_ratio[2], cm_ratio[1])
            /\ r.avg_daily_sales = IF r.days_count = 0 THEN RealZero
                                   ELSE Frac(sales_total, r.days_count)
            /\ r.avg_sale_per_visit = IF r.visits_total = 0 THEN RealZero
                                      ELSE Frac(sales_total, r.visits_total)

\* C15: with concurrent upsert_metrics_cash calls for one key, the committed
\* row always holds the raw inputs of one call together with the derived
\* columns computed from those same inputs.
C15_CommittedRowOfOneCall ==
    \A k \in DOMAIN period_metrics :
        \E raw \in ConcRaws :
            LET whole == UpsertedMetrics(<<>>, 1, 1, raw, 1)[<<1, 1>>]
            IN  [ period_metrics[k] EXCEPT !.computed_at = <<1>>,
                                           !.locked_at = <<>> ] = whole

\* C15 witness: caller 1 has written raw and derived columns and is about to
\* commit while caller 2, with other raw inputs, waits at its INSERT; the
\* committed row is still that of an earlier call with other raw inputs.
C15_Witness ==
    /\ conn[1].pc = "commit"
    /\ conn[2].pc = "insert"
    /\ conn[1].raw # conn[2].raw
    /\ <<1, 1>> \in DOMAIN period_metrics
    /\ RawInputsOf(period_metrics[<<1, 1>>]) # conn[1].raw

\* C16: the daily_logs table never holds two rows with the same
\* (pharmacy_id, log_date); after upsert_daily_log(ph, d, q) the one row of
\* (ph, d) holds exactly q, and every row of another key is as it was.
C16_UpsertOverwrites ==
    [][ /\ \A i, j \in DOMAIN daily_logs' :
              ( /\ daily_logs'[i].pharmacy_id = daily_logs'[j].pharmacy_id
                /\ daily_logs'[i].log_date = daily_logs'[j].log_date ) => i = j
        /\ \A ph \in 1..MaxPharmacies, d \in LogDates, q \in DailyInputs :
              (UpsertDailyLog(ph, d, q) /\ ph \in pharmacies) =>
                 /\ \E i \in DOMAIN daily_logs' :
                       daily_logs'[i] =
                          [ pharmacy_id |-> ph, log_date |-> d,
                            sales_cash |-> q.sales_cash, sales_ins |-> q.sales_ins,
                            var_purchases |-> q.var_purchases,
                            opex_other |-> q.opex_other,
                            visits |-> q.visits, note |-> q.note ]
                 /\ \A i \in DOMAIN daily_logs :
                       (daily_logs[i].pharmacy_id # ph \/ daily_logs[i].log_date # d)
                          => daily_logs'[i] = daily_logs[i]
                 /\ \A i \in DOMAIN daily_logs' :
                       (daily_logs'[i].pharmacy_id # ph \/ daily_logs'[i].log_date # d)
                          => (i \in DOMAIN daily_logs /\ daily_logs'[i] = daily_logs[i])
      ]_vars

\* C16 witness: the full entry of (1, 2025-03-19) has been overwritten by an
\* upsert with the default quantities while the row of another key kept its
\* full entry.
C16_Witness ==
    /\ lastCall.op = "upsert_daily_log"
    /\ lastCall.err = ""
    /\ lastCall.replaced =
          <<DailyLogRow(1, 20250319, QuantitiesOf(5, 3, 2, 1, 10, <<"note">>))>>
    /\ Len(daily_logs) = 2
    /\ daily_logs[1] = DailyLogRow(1, 20250321, QuantitiesOf(5, 3, 2, 1, 10, <<"note">>))
    /\ daily_logs[2] = DailyLogRow(1, 20250319, QuantitiesOf(0, 0, 0, 0, 0, <<>>))

\* the day (jy, jm, day) of the picker button whose callback data carries
\* the ISO-formatted text date_str
PickedDayOf(date_str) ==
    <<date_str \div 10000, (date_str \div 100) % 100, date_str % 100>>

\* C17 (as claimed): when the daily entry flow stores its row, the row's
\* log_date is the Gregorian ISO date of the day the user picked.
C17_LogDateGregorian ==
    [][ (daily # NoDaily /\ daily.step = 4 /\ daily' = NoDaily) =>
           \E i \in DOMAIN daily_logs' :
               /\ daily_logs'[i].pharmacy_id = daily.pharmacy_id
               /\ daily_logs'[i].log_date =
                      isoformat(jalali_to_gregorian(PickedDayOf(daily.date[1])[1],
                                                    PickedDayOf(daily.date[1])[2],
                                                    PickedDayOf(daily.date[1])[3]))
      ]_vars

\* C18 (as claimed): jalali_to_gregorian(*gregorian_to_jalali(d)) = d for
\* every Gregorian date d.
C18_RoundTrip ==
    cal.op = "gregorian_to_jalali" => cal.back = cal.d

\* the month after (jy, jm), month 12 wrapping to month 1 of jy + 1
NextMonthOf(jy, jm) == IF jm = 12 THEN <<jy + 1, 1>> ELSE <<jy, jm + 1>>

\* C19: jalali_month_bounds(jy, jm) returns start <= end, days = (end -
\* start) + 1, and end is the day before the start of the next month
\* (month 12 wrapping into jy + 1); for month 12 the day counts of the
\* twelve months add up to start(jy + 1, 1) - start(jy, 1).
C19_MonthBoundsTile ==
    cal.op = "jalali_month_bounds" =>
        LET next == NextMonthOf(cal.jy, cal.jm)
            next_start == jalali_month_bounds(next[1], next[2])[1]
        IN  /\ isoformat(cal.start) <= isoformat(cal.end)
            /\ cal.days = (toordinal(cal.end) - toordinal(cal.start)) + 1
            /\ toordinal(cal.end) + 1 = toordinal(next_start)
            /\ cal.jm = 12 =>
                   toordinal(cal.start) + cal.days
                      - toordinal(jalali_to_gregorian(cal.jy, 1, 1))
                   = SumFirst([m \in 1..12 |->
                                 jalali_month_bounds(cal.jy, m)[3]], 12)

\* C19 witness: the bounds of month 12 of the leap year 1403, whose next
\* month is month 1 of 1404.
C19_Witness ==
    /\ cal.op = "jalali_month_bounds"
    /\ cal.jy = 1403 /\ cal.jm = 12
    /\ cal.start = <<2025, 2, 19>> /\ cal.end = <<2025, 3, 20>>
    /\ cal.days = 30

\* leap years of the 33-year cycle of the Jalali calendar
IsJalaliLeap(jy) == (jy % 33) \in {1, 5, 9, 13, 17, 22, 26, 30}

\* C20: the day count of jalali_month_bounds is 31 for months 1..6, 30 for
\* months 7..11 and, for month 12, 30 in a leap year and 29 otherwise.
C20_MonthLengthTable ==
    cal.op = "jalali_month_bounds" =>
        cal.days = IF cal.jm <= 6 THEN 31
                   ELSE IF cal.jm <= 11 THEN 30
                   ELSE IF IsJalaliLeap(cal.jy) THEN 30 ELSE 29

\* C20 witness: month 12 of 1404, a common year after the leap year 1403,
\* has 29 days.
C20_Witness ==
    /\ cal.op = "jalali_month_bounds"
    /\ cal.jy = 1404 /\ cal.jm = 12
    /\ cal.days = 29
    /\ ~IsJalaliLeap(cal.jy)

\* the last weekly report read a period row whose bounds
\* date.fromisoformat accepts
WeeklyPeriodParses ==
    /\ weekly.op = "cb_weekly_report"
    /\ weekly.period_info # <<>>
    /\ fromisoformat(weekly.period_info[1].start_date) # <<>>
    /\ fromisoformat(weekly.period_info[1].end_date) # <<>>

\* ordinals of the stored bounds of that period
WeeklyPeriodStart ==
    toordinal(fromisoformat(weekly.period_info[1].start_date)[1])

WeeklyPeriodEnd ==
    toordinal(fromisoformat(weekly.period_info[1].end_date)[1])

RECURSIVE SumOfLogs(_, _, _)
SumOfLogs(logs, ids, key) ==
    IF ids = {} THEN 0
    ELSE LET i == CHOOSE x \in ids : TRUE
         IN  logs[i][key] + SumOfLogs(logs, ids \ {i}, key)

\* the daily_logs rows of pharmacy_id whose date is a day of the window of
\* the report w
LogsInWindow(logs, w) ==
    { i \in DOMAIN logs :
        /\ logs[i].pharmacy_id = w.pharmacy_id
        /\ fromisoformat(logs[i].log_date) # <<>>
        /\ toordinal(fromisoformat(logs[i].log_date)[1]) >= toordinal(w.window_start)
        /\ toordinal(fromisoformat(logs[i].log_date)[1]) <= toordinal(w.window_end) }

\* C22: the weekly report has exactly one entry for every calendar day of
\* [window_start, window_end] in ascending order, with zeros and the
\* "no entry" mark for a day without a daily log, and each total is the sum
\* of its column over exactly the pharmacy's daily logs dated in the window.
C22_OneEntryPerDay ==
    [][ weekly' # weekly =>
          LET w == weekly'
              first == toordinal(w.window_start)
              n == (toordinal(w.window_end) - first) + 1
              inwin == LogsInWindow(daily_logs, w)
          IN  /\ Len(w.entries) = n
              /\ \A k \in 1..n :
                    /\ fromisoformat(w.entries[k].day) # <<>>
                    /\ toordinal(fromisoformat(w.entries[k].day)[1]) = first + (k - 1)
                    /\ (\A i \in inwin : daily_logs[i].log_date # w.entries[k].day)
                          => /\ w.entries[k].sales_cash = 0
                             /\ w.entries[k].sales_ins = 0
                             /\ w.entries[k].var_purchases = 0
                             /\ w.entries[k].opex_other = 0
                             /\ w.entries[k].visits = 0
                             /\ w.entries[k].note_display = "no entry"
              /\ \A key \in {"sales_cash", "sales_ins", "var_purchases",
                             "opex_other", "visits"} :
                    w.totals[key] = SumOfLogs(daily_logs, inwin, key)
      ]_vars

\* a report whose window holds a logged day and a day without a log, while
\* another pharmacy has a log dated inside the window
C22_Witness ==
    /\ weekly.op = "cb_weekly_report"
    /\ weekly.totals.sales_cash > 0
    /\ \E k \in DOMAIN weekly.entries : weekly.entries[k].note_display = "no entry"
    /\ \E i \in DOMAIN daily_logs :
          /\ daily_logs[i].pharmacy_id # weekly.pharmacy_id
          /\ daily_logs[i].log_date >= isoformat(weekly.window_start)
          /\ daily_logs[i].log_date <= isoformat(weekly.window_end)

\* C23: for a stored period whose end date precedes its start date, the
\* weekly window is the single day at the period's stored end date.
C23_ReversedCollapses ==
    (WeeklyPeriodParses /\ WeeklyPeriodEnd < WeeklyPeriodStart) =>
        /\ toordinal(weekly.window_end) = WeeklyPeriodEnd
        /\ toordinal(weekly.window_start) = WeeklyPeriodEnd

\* C24: for every tracked metric key with valueA # 0, the delta the
\* comparator shows is (valueB - valueA) / abs(valueA), for every valueB
\* (valueB = 0 and valueB = valueA included).
C24_DeltaFormula ==
    (compare.op = "render_compare_table" /\ compare.a # <<>> /\ compare.b # <<>>) =>
        \A key \in CompareKeys :
            LET av == safe_num(compare.a, key)[1]
                bv == safe_num(compare.b, key)[1]
            IN  av # RealZero =>
                    compare.rows[key].delta =
                        fmt_percent(FracDiv(FracSub(bv, av), FracAbs(av)))

\* C25: the comparator shows the "undefined" mark for valueA = 0 with
\* valueB # 0 and the "not applicable" mark for valueA = valueB = 0, and
\* with a metrics row missing for either period every delta is still a
\* mark or a number and the missing values are shown as "-".
C25_ZeroBaselineMarks ==
    compare.op = "render_compare_table" =>
        \A key \in CompareKeys :
            LET av == safe_num(compare.a, key)
                bv == safe_num(compare.b, key)
                row == compare.rows[key]
            IN  /\ (av = <<RealZero>> /\ bv # <<>> /\ bv[1] # RealZero)
                      => row.delta = MarkCell(EmDash)
                /\ (av = <<RealZero>> /\ bv = <<RealZero>>)
                      => row.delta = MarkCell(Dash)
                /\ row.delta.mark \in {"", Dash, EmDash}
                /\ av = <<>> => (row.left = MarkCell(Dash) /\ row.delta.mark # "")
                /\ bv = <<>> => row.right = MarkCell(Dash)

\* a table over two stored rows with a metric that is zero in A and not in
\* B and a metric that is zero in both, after a table with a row missing
C25_Witness ==
    /\ compare.op = "render_compare_table"
    /\ compare.a # <<>>
    /\ compare.b # <<>>
    /\ \E key \in CompareKeys : compare.rows[key].delta = MarkCell(EmDash)
    /\ \E key \in CompareKeys :
          /\ safe_num(compare.a, key) = <<RealZero>>
          /\ safe_num(compare.b, key) = <<RealZero>>
          /\ compare.rows[key].delta = MarkCell(Dash)

\* the step a delta button requests, in percent
RequestedStep(sign, pct) == IF sign = "minus" THEN -pct ELSE pct

\* the delta of `kind` a request for (pharmacy 1, pid) starts from
DeltaBefore(pid, kind) ==
    IF SimStateMatches(sim, 1, pid) THEN sim[1].deltas[kind] ELSE 0

\* C26: after any sequence of adjust requests (+-5% or +-10% on sales, var
\* or fixed) and resets each of the three deltas lies within [-30%, +30%],
\* and an adjust that would cross a bound leaves the delta exactly at that
\* bound.
C26_DeltasClamped ==
    [][ /\ sim' # <<>> =>
              \A kind \in SimKinds :
                  sim'[1].deltas[kind] >= -30 /\ sim'[1].deltas[kind] <= 30
        /\ \A pid \in {1, 2}, kind \in SimKinds, sign \in SimSigns, pct \in SimPcts :
              CbSimDelta(1, pid, kind, sign, pct) =>
                  /\ DeltaBefore(pid, kind) + RequestedStep(sign, pct) >= 30
                        => sim'[1].deltas[kind] = 30
                  /\ DeltaBefore(pid, kind) + RequestedStep(sign, pct) <= -30
                        => sim'[1].deltas[kind] = -30
      ]_vars

\* an adjust crossed a bound, with one delta at the upper and one at the
\* lower bound
C26_Witness ==
    /\ sim # <<>>
    /\ sim_view.op = "cb_sim_delta"
    /\ sim_view.crossed
    /\ sim[1].deltas.sales = 30
    /\ sim[1].deltas.var = -30

\* C27: an adjust request for one kind within an existing session of the
\* same (pharmacy, period) changes only that delta, by the requested step
\* up to clamping, and leaves the other two deltas and the baseline
\* snapshot unchanged.
C27_DeltasIndependent ==
    [][ \A pid \in {1, 2}, kind \in SimKinds, sign \in SimSigns, pct \in SimPcts :
           (SimStateMatches(sim, 1, pid) /\ CbSimDelta(1, pid, kind, sign, pct)) =>
               LET target == sim[1].deltas[kind] + RequestedStep(sign, pct)
               IN  /\ SimStateMatches(sim', 1, pid)
                   /\ sim'[1].baseline = sim[1].baseline
                   /\ \A other \in SimKinds \ {kind} :
                         sim'[1].deltas[other] = sim[1].deltas[other]
                   /\ sim'[1].deltas[kind] =
                         (IF target > 30 THEN 30
                          ELSE IF target < -30 THEN -30 ELSE target)
      ]_vars

\* a session of the period with metrics whose three deltas were adjusted
\* to three different values
C27_Witness ==
    /\ SimStateMatches(sim, 1, 1)
    /\ sim_view.op = "cb_sim_delta"
    /\ sim[1].baseline.sales_total = 20
    /\ sim[1].deltas = [sales |-> 15, var |-> -10, fixed |-> 5]

\* C28: a reset within an existing session sets all three deltas to 0 from
\* any delta state and keeps the baseline, and the simulation it renders is
\* the simulation of the baseline with zero deltas.
C28_ResetZeroes ==
    [][ \A pid \in {1, 2} :
           (SimStateMatches(sim, 1, pid) /\ CbSimReset(1, pid)) =>
               /\ SimStateMatches(sim', 1, pid)
               /\ \A kind \in SimKinds : sim'[1].deltas[kind] = 0
               /\ sim'[1].baseline = sim[1].baseline
               /\ sim_view'.text.sim_out =
                     compute_simulated(sim[1].baseline,
                                       [sales |-> 0, var |-> 0, fixed |-> 0])
               /\ sim_view'.text.deltas = [sales |-> 0, var |-> 0, fixed |-> 0]
      ]_vars

\* a reset cleared a session in which all three deltas were non-zero
C28_Witness ==
    /\ sim # <<>>
    /\ sim_view.op = "cb_sim_reset"
    /\ \A kind \in SimKinds : sim_view.cleared[kind] # 0
    /\ sim[1].deltas = [sales |-> 0, var |-> 0, fixed |-> 0]
    /\ sim[1].baseline.sales_total = 20

\* C29: compute_simulated returns sales_total, var_total and fixed_total
\* scaled by (1 + delta), gross_profit = new sales - new var,
\* net_profit_operational = gross_profit - new fixed - opex_other_total, and
\* opex_other_total, visits_total and days_count as in the baseline; the
\* baseline 10M / 3M / 3M / 0.5M (20 / 6 / 6 / 1 units) with +10% / -10% / 0
\* gives 11M, 2.7M, 8.3M and 4.8M.
C29_SimulatedAmounts ==
    sim_view.op = "compute_simulated" =>
        LET b == sim_view.baseline
            d == sim_view.deltas
            o == sim_view.sim_out
        IN  /\ o.sales_total = Frac(b.sales_total * (100 + d.sales), 100)
            /\ o.var_total = Frac(b.var_total * (100 + d.var), 100)
            /\ o.fixed_total = Frac(b.fixed_total * (100 + d.fixed), 100)
            /\ o.gross_profit = FracSub(o.sales_total, o.var_total)
            /\ o.net_profit_operational =
                  FracSub(FracSub(o.gross_profit, o.fixed_total),
                          Frac(b.opex_other_total, 1))
            /\ o.opex_other_total = Frac(b.opex_other_total, 1)
            /\ o.visits_total = b.visits_total
            /\ o.days_count = b.days_count
            /\ ( /\ b.sales_total = 20 /\ b.var_total = 6 /\ b.fixed_total = 6
                 /\ b.opex_other_total = 1
                 /\ d = [sales |-> 10, var |-> -10, fixed |-> 0] )
                  => /\ o.sales_total = <<22, 1>>
                     /\ o.var_total = <<27, 5>>
                     /\ o.gross_profit = <<83, 5>>
                     /\ o.net_profit_operational = <<48, 5>>

\* the scenario was simulated with +10% / -10% / 0
C29_Witness ==
    /\ sim_view.op = "compute_simulated"
    /\ sim_view.baseline.sales_total = 20
    /\ sim_view.baseline.var_total = 6
    /\ sim_view.deltas = [sales |-> 10, var |-> -10, fixed |-> 0]
    /\ sim_view.sim_out.net_profit_operational = <<48, 5>>

\* C30: for every baseline, compute_simulated with all-zero deltas returns
\* the gross_profit, net_profit_operational, cm_ratio, np_ratio,
\* breakeven_sales, avg_daily_sales and avg_sale_per_visit that
\* upsert_metrics_cash stores for the same aggregates.
C30_SimulatorMatchesStore ==
    ( /\ sim_view.op = "compute_simulated"
      /\ sim_view.deltas = [sales |-> 0, var |-> 0, fixed |-> 0]
      /\ <<1, 1>> \in DOMAIN period_metrics
      /\ BaselineOf(period_metrics[<<1, 1>>]) = sim_view.baseline ) =>
        LET row == period_metrics[<<1, 1>>]
            o == sim_view.sim_out
        IN  /\ o.gross_profit = Frac(row.gross_profit, 1)
            /\ o.net_profit_operational = Frac(row.net_profit_operational, 1)
            /\ o.cm_ratio = row.cm_ratio
            /\ o.np_ratio = row.np_ratio
            /\ o.breakeven_sales = row.breakeven_sales
            /\ o.avg_daily_sales = row.avg_daily_sales
            /\ o.avg_sale_per_visit = row.avg_sale_per_visit

\* the operations of the simulator, as sim_view.op names them
SimOps == {"cb_sim_menu", "cb_sim_delta", "cb_sim_reset", "cb_sim_back"}

\* C31: no simulator operation writes durable storage: along any sequence of
\* cb_sim_menu, cb_sim_delta, cb_sim_reset and cb_sim_back requests every
\* step leaves the pharmacies, periods, period_metrics and daily_logs tables
\* as they were.
C31_SimWritesNothing ==
    [][ sim_view'.op \in SimOps
        => /\ pharmacies' = pharmacies
           /\ periods' = periods
           /\ period_metrics' = period_metrics
           /\ daily_logs' = daily_logs ]_vars

\* the sales delta of period 1 was adjusted up to the clamp bound: the
\* period is still open, its metrics row is the only one and no log exists
C31_Witness ==
    /\ sim # NoSim
    /\ sim[1].period_id = 1
    /\ sim[1].deltas.sales = 30
    /\ sim_view.op = "cb_sim_delta"
    /\ periods[1].status = "open"
    /\ DOMAIN period_metrics = {<<1, 1>>}
    /\ daily_logs = <<>>

\* the chat a simulator message was sent to
ViewChat(view) == IF "chat" \in DOMAIN view THEN view.chat ELSE 1

\* the deltas a request can show for a session that starts from zero
FreshDeltas(op) ==
    IF op = "cb_sim_delta"
    THEN { DeltaAdjusted(ZeroDeltas, kind, RequestedStep(sign, pct)) :
             kind \in SimKinds, sign \in SimSigns, pct \in SimPcts }
    ELSE {ZeroDeltas}

\* a menu, adjust or reset request that names a pair other than the one of
\* the session before starts from zero deltas and the baseline of the pair
\* it names: view is the message sent, before and after the caller's session
StartsFresh(before, after, view) ==
    ( /\ view.op \in {"cb_sim_menu", "cb_sim_delta", "cb_sim_reset"}
      /\ \/ before = NoSim
         \/ <<before[1].pharmacy_id, before[1].period_id>> # view.kb )
    => /\ after # NoSim
       /\ <<after[1].pharmacy_id, after[1].period_id>> = view.kb
       /\ after[1].baseline =
             get_period_baseline(period_metrics, view.kb[1], view.kb[2])
       /\ after[1].deltas \in FreshDeltas(view.op)
       /\ view.text.deltas = after[1].deltas
       /\ view.text.sim_out =
             compute_simulated(
                 get_period_baseline(period_metrics, view.kb[1], view.kb[2]),
                 after[1].deltas)

\* C32: the simulator's delta state is isolated.  A request of one owner
\* leaves the session of the other owner as it was, and a request that names
\* a (pharmacy, period) pair other than the one of the caller's session shows
\* and stores zero deltas (plus its own step) on the baseline of the pair it
\* names, whatever deltas the caller had accumulated for another pair.
C32_SimStateIsolated ==
    [][ /\ ViewChat(sim_view') = 1 =>
              /\ peer_sim' = peer_sim
              /\ StartsFresh(sim, sim', sim_view')
        /\ ViewChat(sim_view') = 2 =>
              /\ sim' = sim
              /\ StartsFresh(peer_sim, peer_sim', sim_view') ]_vars

\* the first owner opened period 2 while holding non-zero deltas on another
\* pair and the second owner holds -30% on period 1: period 2 is shown with
\* zero deltas on its own (empty) baseline and the second owner's deltas
\* are intact
C32_Witness ==
    /\ sim # NoSim
    /\ sim[1].period_id = 2
    /\ sim[1].deltas = ZeroDeltas
    /\ sim[1].baseline = EmptyBaseline
    /\ sim_view.op = "cb_sim_menu"
    /\ sim_view.switched
    /\ ViewChat(sim_view) = 1
    /\ peer_sim # NoSim
    /\ peer_sim[1].period_id = 1
    /\ peer_sim[1].deltas.sales = -30

\* the periods of pharmacy_id whose bounds are those of month ym
MonthPeriods(pharmacy_id, ym) ==
    PeriodsByBounds(periods, pharmacy_id, isoformat(LookupBoundsOf[ym][1]),
                    isoformat(LookupBoundsOf[ym][2]))

\* C33: lookups and comparison flows never create entities: a step of the
\* compare-with-previous-month flow, of the compare-two-months flow or of the
\* monthly summary leaves the pharmacies, periods and metrics rows as they
\* were, whether or not the months asked about have periods, and when a
\* month has none the message reports it as missing.
C33_LookupsCreateNothing ==
    [][ \A ym \in Months :
          /\ CbComparePrev(1, ym[1], ym[2]) =>
                /\ UNCHANGED <<pharmacies, periods, period_metrics>>
                /\ ( \/ MonthPeriods(1, ym) = {}
                     \/ MonthPeriods(1, PrevMonthOf(ym[1], ym[2])) = {} )
                      => compare'.missing \in {"prev", "current"}
          /\ CbSummaryPickMonth(1, ym[1], ym[2]) =>
                /\ UNCHANGED <<pharmacies, periods, period_metrics>>
                /\ MonthPeriods(1, ym) = {} => compare'.missing = "period"
          /\ \A tm \in LookupMonths :
                CbComparePick(1, ym[1], ym[2], tm[1], tm[2]) =>
                   /\ UNCHANGED <<pharmacies, periods, period_metrics>>
                   /\ (MonthPeriods(1, ym) = {} \/ MonthPeriods(1, tm) = {})
                         => compare'.missing \in {"base", "target"} ]_vars

\* month 1403/12 has a period and metrics, the month picked against it has
\* none: the flow reported the missing target and the store holds the one
\* period and its one metrics row
C33_Witness ==
    /\ compare.op = "cb_compare_pick"
    /\ compare.missing = "target"
    /\ Len(periods) = 1
    /\ MonthPeriods(1, <<1403, 12>>) = {1}
    /\ DOMAIN period_metrics = {<<1, 1>>}
    /\ period_metrics[<<1, 1>>].sales_total = 20

\* replies that are not numbers: a blank text, a space before the suffix, a
\* letter, two dots, a lone dot and two signs
MalformedTexts ==
    { <<" ", " ">>, <<"1", " ", "k">>, <<"x">>, <<"1", ".", "2", ".", "3">>,
      <<".">>, <<"+", "-", "5">> }

\* C34: a malformed numeric reply in the daily entry flow is recovered
\* locally: when a session is open, the handler answers a reply that is not a
\* number with the "invalid value, try again" prompt, and the session (step,
\* selected date, collected values) and the daily_logs table are exactly as
\* before the reply.
C34_MalformedReplyRecovered ==
    [][ \A text \in MalformedTexts :
          ( /\ daily # NoDaily
            /\ MsgDailyFlow(<<2025, 3, 19>>, parse_smart_number(text)) )
          => /\ handled'.answer = "msg_daily_flow_invalid"
             /\ daily' = daily
             /\ daily_logs' = daily_logs ]_vars

\* a malformed reply arrived at step 2, after the cash sales were collected:
\* the session still waits at step 2 with its date and value, nothing logged
C34_Witness ==
    /\ handled.answer = "msg_daily_flow_invalid"
    /\ daily # NoDaily
    /\ daily.step = 2
    /\ daily.date = <<14031230>>
    /\ daily.data.sales_cash = <<2500>>
    /\ daily.data.sales_ins = <<>>
    /\ daily_logs = <<>>

\* some period of pharmacy_id intersects the Gregorian range of month ym
\* and none has exactly the month's bounds
MonthBlocked(pharmacy_id, ym) ==
    LET start_iso == isoformat(MonthBoundsOf[ym][1])
        end_iso == isoformat(MonthBoundsOf[ym][2])
    IN  /\ \E i \in DOMAIN periods :
              /\ periods[i].pharmacy_id = pharmacy_id
              /\ RangesIntersect(periods[i].start_date, periods[i].end_date,
                                 start_iso, end_iso)
        /\ \A i \in DOMAIN periods :
              ~ ( /\ periods[i].pharmacy_id = pharmacy_id
                  /\ periods[i].start_date = start_iso
                  /\ periods[i].end_date = end_iso )

\* C35: get_or_create_month_period for a month whose Gregorian range
\* intersects an existing period of the same pharmacy without matching its
\* bounds exactly fails with the overlap error and leaves the store
\* unchanged: no period and no metrics row is added.
C35_BlockedMonthFails ==
    [][ \A ph \in 1..MaxPharmacies, ym \in Months, t \in 1..MaxClock :
          ( /\ MonthBlocked(ph, ym)
            /\ GetOrCreateMonthPeriod(ph, ym[1], ym[2], t) )
          => /\ lastCall'.op = "get_or_create_month_period"
             /\ lastCall'.err = "PeriodOverlapError"
             /\ UNCHANGED <<pharmacies, periods, period_metrics>> ]_vars

\* month 1403/12 (2025-02-19 .. 2025-03-20) was asked for while pharmacy 1
\* held only the one-day period 2025-02-19: the call failed and the store
\* still holds that period alone, without a metrics row
C35_Witness ==
    /\ lastCall.op = "get_or_create_month_period"
    /\ lastCall.err = "PeriodOverlapError"
    /\ Len(periods) = 1
    /\ periods[1].pharmacy_id = 1
    /\ periods[1].start_date = 20250219
    /\ periods[1].end_date = 20250219
    /\ period_metrics = <<>>

\* C36 (as claimed): when two get_or_create_month_period calls for the same
\* pharmacy and month have interleaved and both have ended, exactly one
\* period exists for the month, both calls returned its id, neither failed
\* and the period has its metrics row.
C36_InterleavedCallsAgree ==
    \A v, w \in Workers :
        ( /\ v # w
          /\ conn[v].pc = "done" /\ conn[w].pc = "done"
          /\ conn[v].pharmacy_id = conn[w].pharmacy_id
          /\ conn[v].start_date = conn[w].start_date
          /\ conn[v].end_date = conn[w].end_date )
        => LET found == PeriodsByBounds(periods, conn[v].pharmacy_id,
                                        conn[v].start_date, conn[v].end_date)
           IN  /\ Cardinality(found) = 1
               /\ conn[v].err = "" /\ conn[w].err = ""
               /\ conn[v].result \in found /\ conn[w].result \in found
               /\ \A i \in found :
                     <<conn[v].pharmacy_id, i>> \in DOMAIN period_metrics

\* replies that are numbers
ValidTexts == {text \in ReplyTexts : ~parse_smart_number(text).err}

\* the field each step of the daily entry collects
StepField(step) ==
    CASE step = 1 -> "sales_cash" [] step = 2 -> "sales_ins"
      [] step = 3 -> "visits" [] step = 4 -> "fixed_cost"

\* the value collected under key, 0 when none was
Collected(data, key) == IF data[key] = <<>> THEN 0 ELSE data[key][1]

\* C37: in the daily entry handler, for a session of an existing pharmacy, a
\* valid numeric reply at step 1, 2 or 3 advances the step by exactly 1,
\* stores the value under that step's field (sales_cash, sales_ins, visits)
\* and writes nothing; the valid reply at step 4 is the one that calls
\* upsert_daily_log, with the collected cash sales, insurance sales and
\* visits and the replied fixed cost for the (pharmacy, picked date) key,
\* and removes the session; a valid reply at a step outside 1..4 removes the
\* session without writing.
C37_DailyStepsInOrder ==
    [][ \A text \in ValidTexts :
          ( /\ daily # NoDaily
            /\ MsgDailyFlow(<<2025, 3, 19>>, parse_smart_number(text)) )
          => LET value == parse_smart_number(text).value
             IN  IF daily.step \in 1..3
                 THEN /\ daily' = [ daily EXCEPT
                                    !.step = daily.step + 1,
                                    !.data[StepField(daily.step)] = <<value>> ]
                      /\ daily_logs' = daily_logs
                      /\ lastCall' = lastCall
                 ELSE IF daily.step = 4
                 THEN /\ daily' = NoDaily
                      /\ lastCall'.op = "upsert_daily_log"
                      /\ Cardinality(DailyLogIds(daily_logs', daily.pharmacy_id,
                                                 daily.date[1])) = 1
                      /\ \A i \in DailyLogIds(daily_logs', daily.pharmacy_id,
                                              daily.date[1]) :
                            daily_logs'[i] =
                               [ pharmacy_id |-> daily.pharmacy_id,
                                 log_date |-> daily.date[1],
                                 sales_cash |-> Collected(daily.data, "sales_cash"),
                                 sales_ins |-> Collected(daily.data, "sales_ins"),
                                 var_purchases |-> 0,
                                 opex_other |-> value,
                                 visits |-> Collected(daily.data, "visits"),
                                 note |-> <<>> ]
                      /\ \A i \in DOMAIN daily_logs :
                            i \notin DailyLogIds(daily_logs, daily.pharmacy_id,
                                                 daily.date[1])
                               => daily_logs'[i] = daily_logs[i]
                 ELSE /\ daily' = NoDaily
                      /\ daily_logs' = daily_logs
                      /\ lastCall' = lastCall ]_vars

\* the fourth valid reply completed an entry for the picked day 1403-12-30:
\* cash sales 2500, insurance sales 7, 7 visits and a fixed cost of 2500 are
\* in the one row of the log and the session is gone
C37_Witness ==
    /\ handled.answer = "msg_daily_flow_complete"
    /\ daily = NoDaily
    /\ lastCall.op = "upsert_daily_log"
    /\ Len(daily_logs) = 1
    /\ daily_logs[1].log_date = 14031230
    /\ daily_logs[1].sales_cash = 2500
    /\ daily_logs[1].sales_ins = 7
    /\ daily_logs[1].visits = 7
    /\ daily_logs[1].opex_other = 2500

\* C38: with the handlers as main() registers them, a valid numeric text
\* reply of the owner that arrives while a daily entry session waits at a
\* step of 1..4 and no check session is active is handled by msg_daily_flow
\* and advances that session (to the next step, or to its completion).
C38_DailyReplyDelivered ==
    [][ ( /\ daily # NoDaily
          /\ daily.step \in 1..4
          /\ check = NoCheck
          /\ ProcessUpdate(1, "text_reply", <<"7">>) )
        => ( /\ handled'.handler = "msg_daily_flow"
             /\ \/ daily' = NoDaily
                \/ daily'.step = daily.step + 1 ) ]_vars

\* C39: an update of a user who is not in OWNER_USER_IDS that arrives at an
\* owner-guarded handler (of the daily, check or simulator flow) changes
\* nothing: the pharmacies, periods, metrics and daily logs of the database,
\* the database connections and the daily, check and simulator sessions are
\* the same after it as before, so what the owners' handlers read afterwards
\* does not depend on it.
C39_NonOwnerChangesNothing ==
    [][ \A user_id \in Senders \ OWNER_USER_IDS :
          GuardedUpdate(user_id)
          => UNCHANGED <<pharmacies, periods, period_metrics, now, lastCall,
                         monthResult, conn, writer, daily_logs, daily, cal,
                         weekly, compare, sim, sim_view, check, peer_sim>> ]_vars

\* user 3, who is no owner, has just sent a text reply to the guarded
\* msg_daily_flow while the owner's daily session waited at step 4, the check
\* session at step 2 and the simulator session held a sales delta
C39_Witness ==
    /\ handled = Handled("msg_daily_flow", 3, "")
    /\ 3 \notin OWNER_USER_IDS
    /\ daily # NoDaily
    /\ daily.step = 4
    /\ check # NoCheck
    /\ check.step = 2
    /\ sim # NoSim
    /\ sim[1].deltas.sales = 20

====
